---- MODULE Spec2Model ----
(***************************************************************************)
(* A model of monalive's health-checking core: the Checker -> Real ->      *)
(* Service event pipeline, the balancer synchronisation layer built on the *)
(* event registry, the announcer's prefix registry, the reload of actors   *)
(* by Service.Reload and Real.Reload, and the run loops with the graceful  *)
(* shutdown of the application.                                            *)
(*                                                                         *)
(* One Service owns the Reals of RealKeys; every Checker is a goroutine    *)
(* that calls its parent handlers synchronously.  A handler holds a lock   *)
(* only while it mutates its own state, so the steps of two Checker        *)
(* goroutines interleave between the Real, the Service, the balancer and   *)
(* the announcer.  Each part has its own variables and its own             *)
(* specification; a step of one part leaves the variables of the others    *)
(* unchanged.                                                              *)
(***************************************************************************)
EXTENDS Integers, Sequences, FiniteSets, TLC

\* weight.Omitted: "no information".
Omitted == -1

\* Number of inputs the environment delivers in one behaviour: probe results,
\* configuration reloads and balancer client errors.
MaxInputs == 3

\* Metadata.Force values a probe result carries: no probe sets the flag.
ForceValues == {FALSE}

\* The Reals of the Service and the Checkers of each Real.
RealKeys == {1, 2}
CheckerIds == {1, 2, 3}

\* Parent Real of a Checker: Real 1 has two Checkers, Real 2 has one.
RealOf(c) == IF c = 3 THEN 2 ELSE 1

\* Checker configuration: only Checker 1 (an HTTP check) reads a dynamic weight.
DynamicWeight(c) == c = 1
DynamicWeightCoeff(c) == 0
GetRetries(c) == IF c = 3 THEN 1 ELSE 0

\* Static weight of a Real (real.Config.Weight).
ConfigWeight(r) == IF r = 1 THEN 1 ELSE 2

\* Weights a successful probe can carry: TCP checks carry none.
ProbeWeights(c) == IF DynamicWeight(c) THEN {Omitted, 1, 3} ELSE {Omitted}

None == [type |-> "none"]

VARIABLES
    cfgQuorum,      \* service.Config.Quorum
    cfgHysteresis,  \* service.Config.Hysteresis
    svc,            \* service.State
    real,           \* real.State and the runtime part of real.Config, per Real
    chk,            \* checker.State and lifecycle, per Checker
    pc,             \* where the goroutine of a Checker is in the handler chain
    ev,             \* the event that goroutine carries
    announceChanged,\* Service.HandleEvent's local of that goroutine
    registry,       \* balancer.events: pending event per balancer key
    lastCall,       \* last successful client call per balancer key
    flushCalls,     \* the client calls of the latest updateBalancer run
    clientFailed,   \* whether a client call has returned an error so far
    ann,            \* the enabled flag the announcer holds for the Service
    app,            \* supervisor: position in the shutdown sequence
    inputs,         \* environment inputs delivered so far
    \* The balancer's flush loop alone.
    runs,           \* runs of updateBalancer so far
    quiet,          \* whether no event was stored since the latest run
    \* One probe result at a time through the Checker and its Real.
    hchk,           \* checker.State per Checker
    hreal,          \* real.State per Real
    hlast,          \* the latest result: what was emitted and forwarded
    hsteps,         \* results handled so far
    hstreak,        \* per checker: failed probes since its last successful one
    \* The announcer's prefix registry of one announce group.
    prefixes,       \* Prefixes.prefixes: the state of each prefix
    prefixEvents,   \* Prefixes.events: pending status event per prefix
    reported,       \* the status each bound service reported last
    annCalls,       \* calls made to the prefix registry so far
    \* The Announcer around the registry: groups, update loop, Stop.
    groupByPrefix,  \* AnnounceGroupRegistry.groupByPrefix
    eventGroup,     \* the announce group in the key of each pending event
    coreServices,   \* Core.services: the keys of the running Services
    reloadErrors,   \* calls of Core.Reload that returned an error
    removePc,       \* Announcer.Stop: 0 not called, i in removeAll's loop
    clientDown,     \* whether client.Shutdown has been called
    updPc,          \* where the updater goroutine is
    updBatch,       \* updater's eventsByGroup not sent yet
    sendErr,        \* whether the updater's latest ProcessBatch failed
    finalSent,      \* groups removeAll has sent its batch for
    lateReady,      \* prefixes announced Ready after removeAll's batch
    \* The actors of one Service.
    actors,         \* every Real and Checker constructed and not stopped
    svcReals,       \* Service.reals: the Real actor of each key, 0 for none
    svcConfig,      \* Service.config: the keys of its list of Reals
    reloadHung,     \* whether a Service.Reload is blocked for good
    reloads,        \* calls of Service.Reload so far
    \* Run loops and graceful shutdown.
    lc,             \* checker.State and the run loop of each Checker
    rl,             \* the Real: m.checkers, its pool, Reload and Stop
    ctxDone,        \* whether the root context is cancelled
    stage,          \* Monalive.Run: position in the shutdown sequence
    probes,         \* probes started so far
    balState,       \* balancer.State.state: the keys of the snapshot
    balShutdown,    \* Balancer.shutdown is done
    stater,         \* where Balancer.stater is
    realRun,        \* where Real.Run of a Real with an activation function is
    realShutdown,   \* Real.shutdown is done
    actCtx,         \* the context of the activation function is cancelled
    sub,            \* where the subscription goroutine of the Real's key is
    notified,       \* the notification channel that goroutine holds is closed
    notify,         \* the subscription channel: empty, value or closed
    launched,       \* a Checker of the Real runs
    emitted,        \* a Checker of the Real passed an event on
    everPresent,    \* the key was in some snapshot so far
    refreshed,      \* a refresh held the key while the subscription was armed
    adding,         \* the Real whose Reload is inside Pool.Add, 0 when none is
    schedRetries,   \* scheduler.Config.GetRetries()
    schedPc,        \* where Scheduler.Run is
    timer,          \* the delay the timer was last set to
    fired,          \* the timer expired and timer.C holds its value
    schedCtx,       \* the context of Scheduler.Run is cancelled
    tries,          \* the retry loop's i
    attempts,       \* runs of job() since the last initial or loop delay
    lastErr,        \* the last job() returned an error
    cycles,         \* cycles started so far
    calc            \* the latest call of Weight.Recalculate and its result

\* The variables of the event pipeline and those of the prefix registry.
pipeVars == <<cfgQuorum, cfgHysteresis, svc, real, chk, pc, ev, announceChanged,
              registry, lastCall, flushCalls, clientFailed, ann, app, inputs>>
flushVars == <<runs, quiet>>
handVars == <<hchk, hreal, hlast, hsteps, hstreak>>
annVars == <<prefixes, prefixEvents, reported, annCalls>>
syncVars == <<groupByPrefix, eventGroup, coreServices, reloadErrors, removePc,
              clientDown, updPc, updBatch, sendErr, finalSent, lateReady>>
reloadVars == <<actors, svcReals, svcConfig, reloadHung, reloads>>
lifeVars == <<lc, rl, ctxDone, stage, probes>>
schedVars == <<schedRetries, schedPc, timer, fired, schedCtx, tries, attempts,
               lastErr, cycles>>
actVars == <<balState, balShutdown, stater, realRun, realShutdown, actCtx, sub,
             notified, notify, launched, emitted, everPresent, refreshed,
             adding>>

vars == <<pipeVars, flushVars, handVars, annVars, syncVars, reloadVars, lifeVars, actVars,
         schedVars, calc>>

\* What a step of the pipeline leaves alone.
outside == <<flushVars, handVars, annVars, syncVars, reloadVars, lifeVars, actVars,
            schedVars, calc>>

Min(a, b) == IF a < b THEN a ELSE b
Max(a, b) == IF a > b THEN a ELSE b

(***************************************************************************)
(* weight.Weight                                                           *)
(***************************************************************************)
\* Recalculate applying the step without the min and max.
RecalculateOvershoots(weight, old, coeff) ==
    IF weight < 0 /\ old < 0 THEN Omitted
    ELSE IF weight < 0 THEN old
    ELSE IF old < 0 THEN weight
    ELSE IF coeff = 0 \/ weight = old THEN weight
    ELSE LET raw  == (old * coeff) \div 100
             step == IF raw = 0 THEN 1 ELSE raw
         IN  IF weight > old THEN old + step ELSE old - step

Recalculate(weight, old, coeff) ==
    IF weight < 0 /\ old < 0 THEN Omitted
    ELSE IF weight < 0 THEN old
    ELSE IF old < 0 THEN weight
    ELSE IF coeff = 0 THEN weight
    ELSE LET raw  == (old * coeff) \div 100
             step == IF raw = 0 THEN 1 ELSE raw
         IN  IF weight > old THEN Min(old + step, weight)
             ELSE Max(old - step, weight)

(***************************************************************************)
(* Checker: ProcessCheck and its helpers.  Each returns the new checker    *)
(* state and the event handed to the Real (None when nothing is emitted).  *)
(***************************************************************************)
CheckerEvent(type, weight) ==
    [type |-> type,
     new  |-> [enable |-> FALSE, weight |-> weight],
     init |-> [enable |-> FALSE, weight |-> 0]]

\* enableChecker without the reset of FailedAttempts.
CheckerProcessSucceedNoReset(c, st, mdWeight, force) ==
    LET statusChanged == ~st.alive
        st1 == IF st.alive THEN st ELSE [st EXCEPT !.alive = TRUE]
        newWeight == Recalculate(mdWeight, st1.weight, DynamicWeightCoeff(c))
        weightChanged == DynamicWeight(c) /\ st1.weight # newWeight
        st2 == IF weightChanged THEN [st1 EXCEPT !.weight = newWeight] ELSE st1
    IN  [state |-> st2,
         event |-> IF ~statusChanged /\ ~weightChanged /\ ~force
                   THEN None
                   ELSE CheckerEvent("enable", st2.weight)]

\* processSucceed without the check for an unchanged status and weight.
CheckerProcessSucceedAlwaysEmits(c, st, mdWeight, force) ==
    LET st1 == IF st.alive THEN st
               ELSE [st EXCEPT !.alive = TRUE, !.failed = 0]
        newWeight == Recalculate(mdWeight, st1.weight, DynamicWeightCoeff(c))
        weightChanged == DynamicWeight(c) /\ st1.weight # newWeight
        st2 == IF weightChanged THEN [st1 EXCEPT !.weight = newWeight] ELSE st1
    IN  [state |-> st2, event |-> CheckerEvent("enable", st2.weight)]

CheckerProcessSucceed(c, st, mdWeight, force) ==
    LET statusChanged == ~st.alive
        st1 == IF st.alive THEN st
               ELSE [st EXCEPT !.alive = TRUE, !.failed = 0]
        newWeight == Recalculate(mdWeight, st1.weight, DynamicWeightCoeff(c))
        weightChanged == DynamicWeight(c) /\ st1.weight # newWeight
        st2 == IF weightChanged THEN [st1 EXCEPT !.weight = newWeight] ELSE st1
    IN  [state |-> st2,
         event |-> IF ~statusChanged /\ ~weightChanged /\ ~force
                   THEN None
                   ELSE CheckerEvent("enable", st2.weight)]

\* processFail without the shutdown case: every failure is a Disable.
CheckerProcessFailAsDisable(c, st, isShutdown) ==
    LET st1 == [st EXCEPT !.failed = st.failed + 1]
    IN  IF isShutdown \/ st1.failed > GetRetries(c)
        THEN [state |-> [st1 EXCEPT !.alive = FALSE],
              event |-> CheckerEvent("disable", Omitted)]
        ELSE [state |-> st1, event |-> None]

\* failedAttempt comparing with >= : disabled one failure early.
CheckerProcessFailAtRetries(c, st, isShutdown) ==
    IF isShutdown
    THEN [state |-> st, event |-> CheckerEvent("shutdown", Omitted)]
    ELSE LET st1 == [st EXCEPT !.failed = st.failed + 1]
         IN  IF st1.failed >= GetRetries(c)
             THEN [state |-> [st1 EXCEPT !.alive = FALSE],
                   event |-> CheckerEvent("disable", Omitted)]
             ELSE [state |-> st1, event |-> None]

CheckerProcessFail(c, st, isShutdown) ==
    IF isShutdown
    THEN [state |-> st, event |-> CheckerEvent("shutdown", Omitted)]
    ELSE LET st1 == [st EXCEPT !.failed = st.failed + 1]
         IN  IF st1.failed > GetRetries(c)
             THEN [state |-> [st1 EXCEPT !.alive = FALSE],
                   event |-> CheckerEvent("disable", Omitted)]
             ELSE [state |-> st1, event |-> None]

(***************************************************************************)
(* Real: State.Status and the three event handlers.  Each returns the new  *)
(* real state, whether the event is dropped, and the forwarded event.      *)
(***************************************************************************)
Status(st) ==
    IF st.inhibited THEN [enable |-> TRUE, weight |-> 0]
    ELSE [enable |-> st.alive, weight |-> st.weight]

handleDynamicWeight(st, r, weightFromChecker) ==
    IF ~st.dynWeight THEN ConfigWeight(r)
    ELSE IF weightFromChecker # Omitted THEN weightFromChecker
    ELSE st.weight

enableReal(st) ==
    IF st.alive THEN st ELSE [st EXCEPT !.alive = TRUE, !.inhibited = FALSE]

\* disableReal's result when a Real that is not alive never changes.
disableRealChangedOnlyAlive(st) == st.alive

disableRealChanged(st) ==
    ~((~st.alive /\ ~st.inhibitOnFailure) \/ (~st.alive /\ st.inhibited))

disableReal(st) ==
    IF ~disableRealChanged(st) THEN st
    ELSE [st EXCEPT !.alive = FALSE,
                    !.inhibited = IF st.inhibitOnFailure THEN TRUE ELSE @]

RealProcessSucceed(st, r, e) ==
    LET initStatus == IF st.inhibited THEN [enable |-> TRUE, weight |-> 0]
                      ELSE Status(st)
        newWeight == handleDynamicWeight(st, r, e.new.weight)
        weightChanged == st.weight # newWeight
        st1 == [st EXCEPT !.weight = newWeight]
        statusChanged == ~st1.alive
        st2 == enableReal(st1)
    IN  [state |-> st2,
         drop  |-> ~statusChanged /\ ~weightChanged,
         event |-> [e EXCEPT !.new = Status(st2), !.init = initStatus]]

RealProcessFailKeepsWeight(st, r, e) ==
    LET initStatus == Status(st)
        st1 == disableReal(st)
        e1  == IF st1.inhibited
               THEN [e EXCEPT !.type = "enable",
                              !.new = [enable |-> TRUE, weight |-> st1.weight]]
               ELSE e
    IN  [state |-> st1,
         drop  |-> ~disableRealChanged(st),
         event |-> [e1 EXCEPT !.init = initStatus]]

\* processFail without the rewrite of an inhibited Real's event.
RealProcessFailNoRewrite(st, r, e) ==
    [state |-> disableReal(st),
     drop  |-> ~disableRealChanged(st),
     event |-> [e EXCEPT !.init = Status(st)]]

RealProcessFail(st, r, e) ==
    LET initStatus == Status(st)
        st1 == disableReal(st)
        e1  == IF st1.inhibited
               THEN [e EXCEPT !.type = "enable",
                              !.new = [enable |-> TRUE, weight |-> 0]]
               ELSE e
    IN  [state |-> st1,
         drop  |-> ~disableRealChanged(st),
         event |-> [e1 EXCEPT !.init = initStatus]]

\* processShutdown dropping for every Real that is not alive.
RealProcessShutdownDropsInhibited(st, r, e) ==
    [state |-> st,
     drop  |-> ~st.alive,
     event |-> [e EXCEPT !.init = Status(st)]]

RealProcessShutdown(st, r, e) ==
    [state |-> st,
     drop  |-> ~st.alive /\ ~st.inhibited,
     event |-> [e EXCEPT !.init = Status(st)]]

RealHandle(st, r, e) ==
    IF e.type = "enable" THEN RealProcessSucceed(st, r, e)
    ELSE IF e.type = "disable" THEN RealProcessFail(st, r, e)
    ELSE RealProcessShutdown(st, r, e)

(***************************************************************************)
(* Service: processEvent, quorumState, updateAnnounce.                     *)
(***************************************************************************)
processSucceed(s, e) ==
    IF e.init.enable
    THEN [s EXCEPT !.weight = @ + (e.new.weight - e.init.weight)]
    ELSE [s EXCEPT !.weight = @ + e.new.weight, !.realsAlive = @ + 1]

processFailure(s, e) ==
    [s EXCEPT !.weight = @ - e.init.weight, !.realsAlive = @ - 1]

quorumStateNoHysteresis(w, quorum, hysteresis) ==
    IF w >= quorum THEN "up"
    ELSE IF w < quorum \/ w = 0 THEN "down"
    ELSE "hold"

quorumState(w, quorum, hysteresis) ==
    IF w >= quorum + hysteresis THEN "up"
    ELSE IF w < quorum - hysteresis \/ w = 0 THEN "down"
    ELSE "hold"

updateAnnounce(s, quorum, hysteresis) ==
    LET q == quorumState(s.weight, quorum, hysteresis)
    IN  IF q = "up" THEN [s EXCEPT !.alive = TRUE]
        ELSE IF q = "down" THEN [s EXCEPT !.alive = FALSE]
        ELSE s

processEvent(s, e, quorum, hysteresis) ==
    updateAnnounce(IF e.type = "enable" THEN processSucceed(s, e)
                   ELSE processFailure(s, e),
                   quorum, hysteresis)

(***************************************************************************)
(* Event registry and the balancer's use of it.  Event.Merge belongs to    *)
(* package xevent; it is modelled from its documented rule.                *)
(***************************************************************************)
Pending(e) == [init |-> e.init, new |-> e.new]

EventMerge(old, incoming) ==
    IF incoming.new = old.init
    THEN [remove |-> TRUE, value |-> old]
    ELSE [remove |-> FALSE, value |-> [old EXCEPT !.new = incoming.new]]

RegistryStoreOverwrite(reg, key, value) ==
    [reg EXCEPT ![key] = value]

RegistryStore(reg, key, value) ==
    IF reg[key] = None THEN [reg EXCEPT ![key] = value]
    ELSE LET m == EventMerge(reg[key], value)
         IN  IF m.remove THEN [reg EXCEPT ![key] = None]
             ELSE [reg EXCEPT ![key] = m.value]

ProcessorCallsNoElse(key, e) ==
    (IF e.new.enable
     THEN {[key |-> key, op |-> "EnableReal", weight |-> e.new.weight]}
     ELSE {})
    \cup
    (IF ~e.new.enable \/ e.new.weight = 0
     THEN {[key |-> key, op |-> "DisableReal", weight |-> Omitted]}
     ELSE {})

\* The client calls updateBalancer's processor makes for a pending event.
ProcessorCalls(key, e) ==
    IF e.new.enable
    THEN {[key |-> key, op |-> "EnableReal", weight |-> e.new.weight]}
    ELSE {[key |-> key, op |-> "DisableReal", weight |-> Omitted]}

NoCall == [op |-> "none", weight |-> Omitted]

(***************************************************************************)
(* The pipeline as a state machine.                                        *)
(***************************************************************************)
\* <<quorum, hysteresis>> of the Service.
QuorumConfigs == {<<1, 1>>, <<3, 1>>}

InitPipeline ==
    /\ \E q \in QuorumConfigs : cfgQuorum = q[1] /\ cfgHysteresis = q[2]
    /\ svc = [alive |-> FALSE, weight |-> 0, realsAlive |-> 0]
    /\ real = [r \in RealKeys |->
                 [alive |-> FALSE, weight |-> 0, inhibited |-> FALSE,
                  dynWeight |-> \E c \in CheckerIds : RealOf(c) = r /\ DynamicWeight(c),
                  inhibitOnFailure |-> FALSE]]
    /\ chk = [c \in CheckerIds |->
                [alive |-> FALSE, weight |-> ConfigWeight(RealOf(c)),
                 failed |-> 0, run |-> "running"]]
    /\ pc = [c \in CheckerIds |-> "idle"]
    /\ ev = [c \in CheckerIds |-> None]
    /\ announceChanged = [c \in CheckerIds |-> FALSE]
    /\ registry = [r \in RealKeys |-> None]
    /\ lastCall = [r \in RealKeys |-> NoCall]
    /\ flushCalls = {}
    /\ clientFailed = FALSE
    /\ ann = FALSE
    /\ app = "run"
    /\ inputs = 0

\* Checker.handler = Real.HandleEvent: the Real's handler runs under the
\* Real's state lock; an event that is not dropped is then carried to the
\* Service by the same goroutine.
Emit(c, cst, e) ==
    LET r == RealOf(c)
        h == RealHandle(real[r], r, e)
    IN  /\ chk' = [chk EXCEPT ![c] = cst]
        /\ IF e = None
           THEN UNCHANGED <<real, pc, ev>>
           ELSE /\ real' = [real EXCEPT ![r] = h.state]
                /\ IF h.drop
                   THEN UNCHANGED <<pc, ev>>
                   ELSE /\ pc' = [pc EXCEPT ![c] = "svc"]
                        /\ ev' = [ev EXCEPT ![c] = h.event]

\* The scheduler's job: a probe result is processed by ProcessCheck.
ProcessCheck(c) ==
    /\ app \in {"run", "coreStopping"}
    /\ chk[c].run = "running"
    /\ pc[c] = "idle"
    /\ inputs < MaxInputs
    /\ inputs' = inputs + 1
    /\ \/ \E w \in ProbeWeights(c), force \in ForceValues :
             LET res == CheckerProcessSucceed(c, chk[c], w, force)
             IN  Emit(c, res.state, res.event)
       \/ LET res == CheckerProcessFail(c, chk[c], FALSE)
          IN  Emit(c, res.state, res.event)
    /\ UNCHANGED <<outside, cfgQuorum, cfgHysteresis, svc, announceChanged, registry,
                   lastCall, flushCalls, clientFailed, ann, app>>

\* Checker.Run returns: the deferred ProcessCheck(ErrShutdown) emits the
\* Shutdown event.
RunReturns(c) ==
    /\ chk[c].run = "running"
    /\ pc[c] = "idle"
    /\ LET res == CheckerProcessFail(c, chk[c], TRUE)
       IN  Emit(c, [res.state EXCEPT !.run = "stopped"], res.event)

\* Real.Reload with a configuration that no longer holds a Checker: the
\* Checker is stopped and its run loop returns.
RemoveChecker(c) ==
    /\ app = "run"
    /\ inputs < MaxInputs
    /\ inputs' = inputs + 1
    /\ RunReturns(c)
    /\ UNCHANGED <<outside, cfgQuorum, cfgHysteresis, svc, announceChanged, registry,
                   lastCall, flushCalls, clientFailed, ann, app>>

\* Core.Stop stops every Service, Real and Checker: the Checker's run loop
\* returns.
CheckerStop(c) ==
    /\ app = "coreStopping"
    /\ RunReturns(c)
    /\ UNCHANGED <<outside, cfgQuorum, cfgHysteresis, svc, announceChanged, registry,
                   lastCall, flushCalls, clientFailed, ann, app, inputs>>

\* Real.Reload with a configuration that holds a Checker again after an
\* earlier reload removed it: checker.New and a fresh run loop.
AddChecker(c) ==
    /\ app = "run"
    /\ chk[c].run = "stopped"
    /\ pc[c] = "idle"
    /\ inputs < MaxInputs
    /\ inputs' = inputs + 1
    /\ chk' = [chk EXCEPT ![c] = [alive |-> FALSE,
                                   weight |-> ConfigWeight(RealOf(c)),
                                   failed |-> 0, run |-> "running"]]
    /\ UNCHANGED <<outside, cfgQuorum, cfgHysteresis, svc, real, pc, ev, announceChanged,
                   registry, lastCall, flushCalls, clientFailed, ann,
                   app>>

\* Real.Reload with the same Checkers and inhibit_on_failure changed.
ReloadReal(r) ==
    /\ app = "run"
    /\ inputs < MaxInputs
    /\ inputs' = inputs + 1
    /\ real' = [real EXCEPT ![r].inhibitOnFailure = ~@]
    /\ UNCHANGED <<outside, cfgQuorum, cfgHysteresis, svc, chk, pc, ev, announceChanged,
                   registry, lastCall, flushCalls, clientFailed, ann,
                   app>>

\* Service.HandleEvent, first part: processEvent under the Service's lock.
ServiceProcessEvent(c) ==
    /\ pc[c] = "svc"
    /\ svc' = processEvent(svc, ev[c], cfgQuorum, cfgHysteresis)
    /\ announceChanged' = [announceChanged EXCEPT ![c] = svc'.alive # svc.alive]
    /\ pc' = [pc EXCEPT ![c] = "bal"]
    /\ UNCHANGED <<outside, cfgQuorum, cfgHysteresis, real, chk, ev, registry, lastCall,
                   flushCalls, clientFailed, ann, app, inputs>>

\* Service.HandleEvent, second part: balancer.HandleEvent stores the event.
BalancerHandleEvent(c) ==
    /\ pc[c] = "bal"
    /\ registry' = RegistryStore(registry, RealOf(c), Pending(ev[c]))
    /\ IF announceChanged[c]
       THEN pc' = [pc EXCEPT ![c] = "ann"] /\ UNCHANGED ev
       ELSE pc' = [pc EXCEPT ![c] = "idle"] /\ ev' = [ev EXCEPT ![c] = None]
    /\ UNCHANGED <<outside, cfgQuorum, cfgHysteresis, svc, real, chk, announceChanged,
                   lastCall, flushCalls, clientFailed, ann, app, inputs>>

\* Service.HandleEvent, third part: the argument m.state.Alive of
\* announcer.UpdateService is read, outside the Service's lock; the Checker's
\* goroutine stands before the call with the value it read.
AnnouncerReadAlive(c) ==
    /\ pc[c] = "ann"
    /\ pc' = [pc EXCEPT ![c] = IF svc.alive THEN "annEnabled" ELSE "annDisabled"]
    /\ UNCHANGED <<outside, cfgQuorum, cfgHysteresis, svc, real, chk, ev,
                   announceChanged, registry, lastCall, flushCalls, clientFailed,
                   ann, app, inputs>>

\* Service.HandleEvent, last part: announcer.UpdateService stores the value
\* it was called with, under the announcer's lock.
AnnouncerUpdateService(c) ==
    /\ pc[c] \in {"annEnabled", "annDisabled"}
    /\ ann' = (pc[c] = "annEnabled")
    /\ pc' = [pc EXCEPT ![c] = "idle"]
    /\ ev' = [ev EXCEPT ![c] = None]
    /\ announceChanged' = [announceChanged EXCEPT ![c] = FALSE]
    /\ UNCHANGED <<outside, cfgQuorum, cfgHysteresis, svc, real, chk, registry, lastCall,
                   flushCalls, clientFailed, app, inputs>>

\* updateBalancer's call of the client's Flush after Registry.Process.
FlushCall == [key |-> 0, op |-> "Flush", weight |-> Omitted]

FlushCallsAlways(processed) == {FlushCall}

FlushCalls(processed) == IF processed # {} THEN {FlushCall} ELSE {}

\* updateBalancer with a Registry.Process that deletes every entry it visited.
updateBalancerDropsFailed ==
    LET pending == {r \in RealKeys : registry[r] # None}
    IN  \E failing \in SUBSET pending, flushOk \in BOOLEAN :
          LET processed == pending \ failing
              errors == Cardinality(failing) + (IF flushOk THEN 0 ELSE 1)
          IN  /\ processed = {} => flushOk
              /\ inputs + errors <= MaxInputs
              /\ inputs' = inputs + errors
              /\ clientFailed' = (clientFailed \/ errors > 0)
              /\ registry' = [r \in RealKeys |-> None]
              /\ flushCalls' = UNION {ProcessorCalls(r, registry[r]) : r \in pending}
                               \cup FlushCalls(processed)
              /\ lastCall' = [r \in RealKeys |->
                    IF r \in processed
                    THEN LET call == CHOOSE x \in ProcessorCalls(r, registry[r]) : TRUE
                         IN  [op |-> call.op, weight |-> call.weight]
                    ELSE lastCall[r]]

\* Balancer.updateBalancer: Registry.Process calls the client once per pending
\* entry under the registry lock and deletes the entries whose call returned
\* no error; Flush follows when at least one was processed.
updateBalancer ==
    LET pending == {r \in RealKeys : registry[r] # None}
    IN  \E failing \in SUBSET pending, flushOk \in BOOLEAN :
          LET processed == pending \ failing
              errors == Cardinality(failing) + (IF flushOk THEN 0 ELSE 1)
          IN  /\ processed = {} => flushOk
              /\ inputs + errors <= MaxInputs
              /\ inputs' = inputs + errors
              /\ clientFailed' = (clientFailed \/ errors > 0)
              /\ registry' = [r \in RealKeys |->
                                IF r \in processed THEN None ELSE registry[r]]
              /\ flushCalls' = UNION {ProcessorCalls(r, registry[r]) : r \in pending}
                               \cup FlushCalls(processed)
              /\ lastCall' = [r \in RealKeys |->
                    IF r \in processed
                    THEN LET call == CHOOSE x \in ProcessorCalls(r, registry[r]) :
                                       \A y \in ProcessorCalls(r, registry[r]) :
                                           x.op = "DisableReal" \/ y.op = "EnableReal"
                         IN  [op |-> call.op, weight |-> call.weight]
                    ELSE lastCall[r]]

\* Balancer.updater: a tick of the flush ticker.
UpdaterTick ==
    /\ app # "exited"
    /\ \E r \in RealKeys : registry[r] # None
    /\ updateBalancer
    /\ UNCHANGED <<outside, cfgQuorum, cfgHysteresis, svc, real, chk, pc, ev,
                   announceChanged, ann, app>>

\* Balancer.updater: the shutdown latch is closed, one last update and return.
UpdaterShutdown ==
    /\ app = "balancerStopped"
    /\ updateBalancer
    /\ app' = "exited"
    /\ UNCHANGED <<outside, cfgQuorum, cfgHysteresis, svc, real, chk, pc, ev,
                   announceChanged, ann>>

\* Monalive.Run after the context is cancelled: core.Stop() is entered.
CoreStopBegin ==
    /\ app = "run"
    /\ app' = "coreStopping"
    /\ UNCHANGED <<outside, cfgQuorum, cfgHysteresis, svc, real, chk, pc, ev,
                   announceChanged, registry, lastCall, flushCalls,
                   clientFailed, ann, inputs>>

\* core.Stop() returns: every Checker's run loop has returned and every
\* handler in flight has finished (the events wait groups).
CoreStopReturn ==
    /\ app = "coreStopping"
    /\ \A c \in CheckerIds : chk[c].run = "stopped" /\ pc[c] = "idle"
    /\ app' = "coreStopped"
    /\ UNCHANGED <<outside, cfgQuorum, cfgHysteresis, svc, real, chk, pc, ev,
                   announceChanged, registry, lastCall, flushCalls,
                   clientFailed, ann, inputs>>

\* Monalive.Run: balancer.Stop() closes the balancer's shutdown latch.
BalancerStop ==
    /\ app = "coreStopped"
    /\ app' = "balancerStopped"
    /\ UNCHANGED <<outside, cfgQuorum, cfgHysteresis, svc, real, chk, pc, ev,
                   announceChanged, registry, lastCall, flushCalls,
                   clientFailed, ann, inputs>>

(***************************************************************************)
(* The balancer's registry and flush loop alone: events are stored by      *)
(* Balancer.HandleEvent and updateBalancer runs on the ticks of its        *)
(* ticker, also when nothing is pending.                                   *)
(***************************************************************************)
\* Runs of updateBalancer in one behaviour.
MaxRuns == 3

\* Events a Real forwards: enable, disable or shutdown, inhibit, recover.
FlushEvents ==
    {[init |-> [enable |-> FALSE, weight |-> 0], new |-> [enable |-> TRUE, weight |-> 1]],
     [init |-> [enable |-> TRUE, weight |-> 1], new |-> [enable |-> FALSE, weight |-> Omitted]],
     [init |-> [enable |-> TRUE, weight |-> 1], new |-> [enable |-> TRUE, weight |-> 0]],
     [init |-> [enable |-> TRUE, weight |-> 0], new |-> [enable |-> TRUE, weight |-> 1]]}

InitFlush ==
    /\ runs = 0
    /\ quiet = FALSE

\* Balancer.HandleEvent: the event of a Real is stored in the registry.
FlushHandleEvent(r, e) ==
    /\ inputs < MaxInputs
    /\ inputs' = inputs + 1
    /\ registry' = RegistryStore(registry, r, e)
    /\ quiet' = FALSE
    /\ UNCHANGED <<runs, lastCall, flushCalls, clientFailed, cfgQuorum,
                   cfgHysteresis, svc, real, chk, pc, ev, announceChanged, ann,
                   app, actVars, schedVars, calc, handVars, annVars, syncVars, reloadVars, lifeVars>>

\* Balancer.updater: a tick of the flush ticker.
FlushTick ==
    /\ runs < MaxRuns
    /\ runs' = runs + 1
    /\ updateBalancer
    /\ quiet' = TRUE
    /\ UNCHANGED <<cfgQuorum, cfgHysteresis, svc, real, chk, pc, ev,
                   announceChanged, ann, app, actVars, schedVars, calc, handVars, annVars, syncVars,
                   reloadVars, lifeVars>>

NextFlush ==
    \/ \E r \in RealKeys, e \in FlushEvents : FlushHandleEvent(r, e)
    \/ FlushTick

(***************************************************************************)
(* The handlers alone: one probe result at a time goes through             *)
(* Checker.ProcessCheck and, when it emits an event, Real.HandleEvent.     *)
(* hlast keeps the event the Checker emitted and the event the Real        *)
(* forwarded to the Service (None when there was none).                    *)
(***************************************************************************)
\* Results handled in one behaviour.
MaxHandled == 4

InitHandlers ==
    /\ hchk = [c \in CheckerIds |->
                 [alive |-> FALSE, weight |-> ConfigWeight(RealOf(c)),
                  failed |-> 0, run |-> "running"]]
    /\ hreal = [r \in RealKeys |->
                  [alive |-> FALSE, weight |-> 0, inhibited |-> FALSE,
                   dynWeight |-> \E c \in CheckerIds : RealOf(c) = r /\ DynamicWeight(c),
                   inhibitOnFailure |-> FALSE]]
    /\ hlast = [kind |-> "none", checker |-> 0, emitted |-> None, forwarded |-> None]
    /\ hsteps = 0
    /\ hstreak = [c \in CheckerIds |-> 0]

\* Checker.ProcessCheck's result res, handed to Checker.handler.
HandleResult(kind, c, res) ==
    LET r == RealOf(c)
        h == RealHandle(hreal[r], r, res.event)
    IN  /\ hsteps < MaxHandled
        /\ hsteps' = hsteps + 1
        /\ hchk' = [hchk EXCEPT ![c] = [res.state EXCEPT
                                          !.run = IF kind = "shutdown"
                                                  THEN "stopped" ELSE @]]
        /\ hreal' = IF res.event = None THEN hreal
                    ELSE [hreal EXCEPT ![r] = h.state]
        /\ hlast' = [kind |-> kind, checker |-> c, emitted |-> res.event,
                     forwarded |-> IF res.event = None \/ h.drop THEN None
                                   ELSE h.event]
        /\ hstreak' = [hstreak EXCEPT ![c] = IF kind = "fail" THEN @ + 1
                                             ELSE IF kind = "shutdown" THEN @
                                             ELSE 0]
        /\ UNCHANGED <<pipeVars, calc, schedVars, actVars, flushVars, annVars, syncVars, reloadVars, lifeVars>>

HandleSucceed(c, mdWeight, force) ==
    /\ hchk[c].run = "running"
    /\ HandleResult(IF force THEN "forced" ELSE "succeed", c,
                    CheckerProcessSucceed(c, hchk[c], mdWeight, force))

HandleFail(c) ==
    /\ hchk[c].run = "running"
    /\ HandleResult("fail", c, CheckerProcessFail(c, hchk[c], FALSE))

HandleShutdown(c) ==
    /\ hchk[c].run = "running"
    /\ HandleResult("shutdown", c, CheckerProcessFail(c, hchk[c], TRUE))

\* Real.Reload with a configuration that changes inhibit_on_failure.
HandleReload(r) ==
    /\ hsteps < MaxHandled
    /\ hsteps' = hsteps + 1
    /\ hreal' = [hreal EXCEPT ![r].inhibitOnFailure = ~@]
    /\ hlast' = [kind |-> "reload", checker |-> 0, emitted |-> None,
                 forwarded |-> None]
    /\ UNCHANGED <<hchk, hstreak, pipeVars, calc, schedVars, actVars, flushVars, annVars, syncVars, reloadVars, lifeVars>>

NextHandlers ==
    \/ \E c \in CheckerIds :
          \E w \in ProbeWeights(c), force \in BOOLEAN : HandleSucceed(c, w, force)
    \/ \E c \in CheckerIds : HandleFail(c)
    \/ \E c \in CheckerIds : HandleShutdown(c)
    \/ \E r \in RealKeys : HandleReload(r)

(***************************************************************************)
(* The announcer's prefix registry: Prefixes and prefixState.               *)
(***************************************************************************)
\* Calls made to the prefix registry in one behaviour.
MaxAnnCalls == 5

\* Services that configurations can bind, and the prefix of each (its VIP).
AnnServices == {"a1", "a2", "b1"}
AnnPrefixes == {"A", "B"}
Prefix(s) == IF s = "b1" THEN "B" ELSE "A"

NoPrefix == [quorum |-> -1]
NoEvent == "none"

newState(services) ==
    [services |-> services, enabled |-> {}, active |-> 0,
     quorum |-> Cardinality(services)]

ApplyServices(st, newServices) ==
    [services |-> newServices,
     enabled  |-> {},
     active   |-> st.active
                    - Cardinality({x \in st.services \ newServices : x \in st.enabled}),
     quorum   |-> Cardinality(newServices)]

prefixStatus(st) == st.quorum = st.active /\ st.active # 0

\* UpdateService without the membership test: any service is counted.
prefixUpdateServiceAnyService(st, service, status) ==
    IF (service \in st.enabled) = status
    THEN st
    ELSE [st EXCEPT !.active = IF status THEN @ + 1 ELSE @ - 1,
                    !.enabled = IF status THEN @ \cup {service} ELSE @ \ {service}]

prefixUpdateService(st, service, status) ==
    IF service \notin st.services \/ (service \in st.enabled) = status
    THEN st
    ELSE [st EXCEPT !.active = IF status THEN @ + 1 ELSE @ - 1,
                    !.enabled = IF status THEN @ \cup {service} ELSE @ \ {service}]

\* Registry.Store overwriting the pending status instead of merging.
PrefixEventStoreOverwrite(events, prefix, status) ==
    [events EXCEPT ![prefix] = status]

\* Registry.Store with PrefixStatus.Merge: two different statuses cancel.
PrefixEventStore(events, prefix, status) ==
    IF events[prefix] = NoEvent THEN [events EXCEPT ![prefix] = status]
    ELSE IF events[prefix] # status THEN [events EXCEPT ![prefix] = NoEvent]
    ELSE [events EXCEPT ![prefix] = status]

InitAnnouncer ==
    /\ prefixes = [p \in AnnPrefixes |-> NoPrefix]
    /\ prefixEvents = [p \in AnnPrefixes |-> NoEvent]
    /\ reported = [x \in AnnServices |-> FALSE]
    /\ annCalls = 0

\* Prefixes.ReloadServices with the services of a new configuration.
ReloadServices(services) ==
    LET bound(p) == {x \in services : Prefix(x) = p}
        kept == {p \in AnnPrefixes : prefixes[p] # NoPrefix /\ bound(p) # {}}
        gone == {p \in AnnPrefixes : prefixes[p] # NoPrefix /\ bound(p) = {}}
        applied(p) == ApplyServices(prefixes[p], bound(p))
        change(p) ==
            IF p \in kept /\ prefixStatus(applied(p)) # prefixStatus(prefixes[p])
            THEN IF prefixStatus(applied(p)) THEN "ready" ELSE "unready"
            ELSE IF p \in gone /\ prefixStatus(prefixes[p]) THEN "unready"
            ELSE NoEvent
    IN  /\ annCalls < MaxAnnCalls
        /\ annCalls' = annCalls + 1
        /\ prefixes' = [p \in AnnPrefixes |->
                          IF p \in kept THEN applied(p)
                          ELSE IF bound(p) # {} THEN newState(bound(p))
                          ELSE NoPrefix]
        /\ prefixEvents' = [p \in AnnPrefixes |->
                              IF change(p) = NoEvent THEN prefixEvents[p]
                              ELSE PrefixEventStore(prefixEvents, p, change(p))[p]]
        /\ reported' = [x \in AnnServices |->
                          IF x \in services THEN reported[x] ELSE FALSE]
        /\ UNCHANGED <<pipeVars, calc, schedVars, actVars, flushVars, handVars, reloadVars, lifeVars>>

\* Prefixes.UpdateService: a Service reports its status.
UpdateService(service, status) ==
    LET p  == Prefix(service)
        st == prefixUpdateService(prefixes[p], service, status)
    IN  /\ annCalls < MaxAnnCalls
        /\ annCalls' = annCalls + 1
        /\ IF prefixes[p] = NoPrefix
           THEN UNCHANGED <<prefixes, prefixEvents, reported>>
           ELSE /\ prefixes' = [prefixes EXCEPT ![p] = st]
                /\ prefixEvents' =
                      IF prefixStatus(st) # prefixStatus(prefixes[p])
                      THEN PrefixEventStore(prefixEvents, p,
                               IF prefixStatus(st) THEN "ready" ELSE "unready")
                      ELSE prefixEvents
                /\ reported' = IF service \in prefixes[p].services
                               THEN [reported EXCEPT ![service] = status]
                               ELSE reported
        /\ UNCHANGED <<pipeVars, calc, schedVars, actVars, flushVars, handVars, reloadVars, lifeVars>>

\* Prefixes.Events: the update loop takes the pending events.
Events ==
    /\ \E p \in AnnPrefixes : prefixEvents[p] # NoEvent
    /\ prefixEvents' = [p \in AnnPrefixes |-> NoEvent]
    /\ UNCHANGED <<pipeVars, calc, schedVars, actVars, flushVars, handVars, reloadVars, lifeVars, prefixes, reported, annCalls>>

NextAnnouncer ==
    \/ \E services \in SUBSET AnnServices :
          ReloadServices(services) /\ UNCHANGED syncVars
    \/ \E service \in AnnServices, status \in BOOLEAN :
          UpdateService(service, status) /\ UNCHANGED syncVars
    \/ Events /\ UNCHANGED syncVars

(***************************************************************************)
(* The Announcer around the prefix registry: announce groups, Core.Reload  *)
(* calling ReloadServices, the update loop and Stop.                       *)
(***************************************************************************)
\* Calls of Core.Reload and Announcer.UpdateService in one behaviour.
MaxSyncCalls == 3

\* announcer.Config.AnnounceGroup, and the group names a service
\* configuration may carry ("" for a service that is not announced).
AnnounceGroup == <<"g1", "g2">>
GroupNames == {"", "g1", "g2", "bad"}
NoGroup == "none"
NoBatch == [status |-> NoEvent, group |-> NoGroup]

\* A configuration: the announce group of each of its services.
AnnConfigs == UNION {[S -> GroupNames] : S \in SUBSET AnnServices}

ContainsGroup(group) == \E i \in DOMAIN AnnounceGroup : AnnounceGroup[i] = group

GetPrefixes(group) == {p \in AnnPrefixes : groupByPrefix[p] = group}

servicesForAnnouncer(config) ==
    [x \in {y \in DOMAIN config : config[y] # ""} |-> config[x]]

\* Whether Announcer.ReloadServices returns an error for these services.
ReloadRejected(services) ==
    \/ \E x \in DOMAIN services : ~ContainsGroup(services[x])
    \/ \E x, y \in DOMAIN services :
          Prefix(x) = Prefix(y) /\ services[x] # services[y]

\* The group each prefix gets from accepted services.
newGroupByPrefix(services) ==
    [p \in AnnPrefixes |->
        IF \E x \in DOMAIN services : Prefix(x) = p
        THEN services[CHOOSE x \in DOMAIN services : Prefix(x) = p]
        ELSE NoGroup]

\* The group in the key of the events a call has stored or merged.
EventGroups(newEvents, group) ==
    [p \in AnnPrefixes |->
        IF newEvents[p] = NoEvent THEN NoGroup
        ELSE IF newEvents[p] # prefixEvents[p] THEN group[p]
        ELSE eventGroup[p]]

CoreReloadIgnoresError(running, config, err) == DOMAIN config

\* Core.services after Core.Reload: untouched when the announcer rejects.
CoreReloadServices(running, config, err) ==
    IF err THEN running ELSE DOMAIN config

InitSync ==
    /\ groupByPrefix = [p \in AnnPrefixes |-> NoGroup]
    /\ eventGroup = [p \in AnnPrefixes |-> NoGroup]
    /\ coreServices = {}
    /\ reloadErrors = 0
    /\ removePc = 0
    /\ clientDown = FALSE
    /\ updPc = "idle"
    /\ updBatch = [p \in AnnPrefixes |-> NoBatch]
    /\ sendErr = FALSE
    /\ finalSent = {}
    /\ lateReady = {}

\* Core.Reload up to the replacement of the services map.
CoreReload(config) ==
    LET services == servicesForAnnouncer(config)
        err == ReloadRejected(services)
        groups == newGroupByPrefix(services)
    IN  /\ removePc = 0
        /\ annCalls < MaxSyncCalls
        /\ coreServices' = CoreReloadServices(coreServices, config, err)
        /\ IF err
           THEN /\ annCalls < MaxAnnCalls
                /\ annCalls' = annCalls + 1
                /\ reloadErrors' = reloadErrors + 1
                /\ UNCHANGED <<prefixes, prefixEvents, reported, groupByPrefix,
                               eventGroup, pipeVars, calc, schedVars, actVars, flushVars, handVars, reloadVars, lifeVars>>
           ELSE /\ ReloadServices(DOMAIN services)
                /\ groupByPrefix' = groups
                /\ eventGroup' =
                      EventGroups(prefixEvents',
                          [p \in AnnPrefixes |->
                              IF groups[p] # NoGroup THEN groups[p]
                              ELSE groupByPrefix[p]])
                /\ UNCHANGED reloadErrors
        /\ UNCHANGED <<removePc, clientDown, updPc, updBatch, sendErr,
                       finalSent, lateReady>>

\* Announcer.UpdateService, called by a Service whose announce state flipped.
AnnUpdateService(service, status) ==
    /\ removePc = 0
    /\ annCalls < MaxSyncCalls
    /\ service \in coreServices
    /\ IF groupByPrefix[Prefix(service)] = NoGroup
       THEN /\ annCalls < MaxAnnCalls
            /\ annCalls' = annCalls + 1
            /\ UNCHANGED <<prefixes, prefixEvents, reported, eventGroup,
                           pipeVars, calc, schedVars, actVars, flushVars, handVars, reloadVars, lifeVars>>
       ELSE /\ UpdateService(service, status)
            /\ eventGroup' = EventGroups(prefixEvents', groupByPrefix)
    /\ UNCHANGED <<groupByPrefix, coreServices, reloadErrors, removePc,
                   clientDown, updPc, updBatch, sendErr, finalSent, lateReady>>

\* updater, the ticker's branch: take the pending events, group them.
updaterTick ==
    /\ updPc = "idle"
    /\ \E p \in AnnPrefixes : prefixEvents[p] # NoEvent
    /\ updBatch' = [p \in AnnPrefixes |->
                      IF prefixEvents[p] = NoEvent THEN NoBatch
                      ELSE [status |-> prefixEvents[p], group |-> eventGroup[p]]]
    /\ prefixEvents' = [p \in AnnPrefixes |-> NoEvent]
    /\ eventGroup' = [p \in AnnPrefixes |-> NoGroup]
    /\ updPc' = "sending"
    /\ UNCHANGED <<prefixes, reported, annCalls, groupByPrefix, coreServices,
                   reloadErrors, removePc, clientDown, sendErr, finalSent,
                   lateReady, pipeVars, calc, schedVars, actVars, flushVars, handVars, reloadVars, lifeVars>>

\* updater: ProcessBatch for one group of the events taken; an error is
\* logged.
updaterSend(group, ok) ==
    LET batch == {p \in AnnPrefixes : updBatch[p].group = group}
        rest == [p \in AnnPrefixes |-> IF p \in batch THEN NoBatch ELSE updBatch[p]]
    IN  /\ updPc = "sending"
        /\ batch # {}
        /\ ok => ~clientDown
        /\ sendErr' = ~ok
        /\ updBatch' = rest
        /\ updPc' = IF \A p \in AnnPrefixes : rest[p] = NoBatch
                    THEN "idle" ELSE "sending"
        /\ lateReady' =
              IF group \in finalSent
              THEN lateReady \cup {p \in batch : updBatch[p].status = "ready"}
              ELSE lateReady
        /\ UNCHANGED <<annVars, groupByPrefix, eventGroup, coreServices,
                       reloadErrors, removePc, clientDown, finalSent,
                       pipeVars, calc, schedVars, actVars, flushVars, handVars, reloadVars, lifeVars>>

\* updater, the latch's branch of the select.
updaterReturn ==
    /\ updPc = "idle"
    /\ removePc > 0
    /\ updPc' = "exited"
    /\ UNCHANGED <<annVars, groupByPrefix, eventGroup, coreServices,
                   reloadErrors, removePc, clientDown, updBatch, sendErr,
                   finalSent, lateReady, pipeVars, calc, schedVars, actVars, flushVars, handVars, reloadVars, lifeVars>>

\* Announcer.Stop: shutdown.Do.  Monalive.Run calls it after Core.Stop, when
\* every Service has reported its last status.
AnnouncerStop ==
    /\ removePc = 0
    /\ \A x \in AnnServices : ~reported[x]
    /\ removePc' = 1
    /\ UNCHANGED <<annVars, groupByPrefix, eventGroup, coreServices,
                   reloadErrors, clientDown, updPc, updBatch, sendErr,
                   finalSent, lateReady, pipeVars, calc, schedVars, actVars, flushVars, handVars, reloadVars, lifeVars>>

\* removeAll: one iteration of its loop over the configured groups.
removeAll ==
    /\ removePc \in DOMAIN AnnounceGroup
    /\ removePc' = removePc + 1
    /\ finalSent' = IF GetPrefixes(AnnounceGroup[removePc]) = {}
                    THEN finalSent
                    ELSE finalSent \cup {AnnounceGroup[removePc]}
    /\ UNCHANGED <<annVars, groupByPrefix, eventGroup, coreServices,
                   reloadErrors, clientDown, updPc, updBatch, sendErr,
                   lateReady, pipeVars, calc, schedVars, actVars, flushVars, handVars, reloadVars, lifeVars>>

\* Announcer.Stop: client.Shutdown after removeAll.
ClientShutdown ==
    /\ removePc = Len(AnnounceGroup) + 1
    /\ ~clientDown
    /\ clientDown' = TRUE
    /\ UNCHANGED <<annVars, groupByPrefix, eventGroup, coreServices,
                   reloadErrors, removePc, updPc, updBatch, sendErr,
                   finalSent, lateReady, pipeVars, calc, schedVars, actVars, flushVars, handVars, reloadVars, lifeVars>>

NextSync ==
    \/ \E config \in AnnConfigs : CoreReload(config)
    \/ \E service \in AnnServices, status \in BOOLEAN :
          AnnUpdateService(service, status)
    \/ updaterTick
    \/ \E group \in GroupNames, ok \in BOOLEAN : updaterSend(group, ok)
    \/ updaterReturn
    \/ AnnouncerStop
    \/ removeAll
    \/ ClientShutdown

(***************************************************************************)
(* Actor lifecycle: Service.Reload and Real.Reload.  A Service maps Real   *)
(* keys to Real actors, a Real maps Checker keys to Checker actors; a      *)
(* configuration is the list of entries the configuration file holds.  An  *)
(* actor is in actors from its construction until Stop has been called on  *)
(* it.                                                                     *)
(***************************************************************************)
\* Actors alive at one time, entries of one configuration list, and calls of
\* Service.Reload in one behaviour.
MaxActors == 5
MaxConfigLen == 2
MaxReloads == 2

CheckerKeys == {1, 2}
ActorIds == 1..MaxActors
NoActor == [kind |-> "none"]
NoCheckers == [k \in CheckerKeys |-> 0]
NoReals == [k \in RealKeys |-> 0]

RECURSIVE ListsUpTo(_, _)
ListsUpTo(S, n) ==
    IF n = 0 THEN {<<>>}
    ELSE LET shorter == ListsUpTo(S, n - 1)
         IN  shorter \cup {Append(l, x) : l \in {t \in shorter : Len(t) = n - 1},
                                          x \in S}

\* real.Config: the key and the concatenated list of checker configurations.
RealConfigs == [key : RealKeys, checkers : ListsUpTo(CheckerKeys, MaxConfigLen)]
\* service.Config.Reals.
ServiceConfigs == ListsUpTo(RealConfigs, MaxConfigLen)

Elems(l) == {l[i] : i \in DOMAIN l}
Mapped(m) == {m[k] : k \in DOMAIN m} \ {0}

\* The actor a constructor returns: the first free slot, 0 when none is left.
FreshActor(A) ==
    IF \A a \in ActorIds : A[a] # NoActor THEN 0
    ELSE CHOOSE a \in ActorIds :
            A[a] = NoActor /\ \A b \in 1..(a - 1) : A[b] # NoActor

\* Stop called on each actor of ids.
StopActors(A, ids) == [a \in ActorIds |-> IF a \in ids THEN NoActor ELSE A[a]]

\* The loop of Real.Reload over the checker configurations: W.old is
\* m.checkers, W.new is newCheckers.
RECURSIVE RealReloadLoop(_, _, _, _)
RealReloadLoop(W, a, config, i) ==
    IF i > Len(config) \/ ~W.ok THEN W
    ELSE LET key   == config[i]
             known == W.old[key]
             fresh == FreshActor(W.A)
         IN  IF known # 0
             THEN RealReloadLoop([W EXCEPT !.new[key] = known, !.old[key] = 0],
                                 a, config, i + 1)
             ELSE IF fresh = 0 THEN [W EXCEPT !.ok = FALSE]
             ELSE RealReloadLoop(
                      [W EXCEPT !.A[fresh] = [kind |-> "checker", key |-> key,
                                              parent |-> a],
                                !.new[key] = fresh],
                      a, config, i + 1)

\* Real.Reload: the loop, Stop on the checkers left in m.checkers, then the
\* new configuration and map are saved.
RealReload(A, a, config) ==
    LET W == RealReloadLoop([A |-> A, old |-> A[a].checkers, new |-> NoCheckers,
                             ok |-> TRUE], a, config, 1)
        stopped == StopActors(W.A, Mapped(W.old))
    IN  [A  |-> [stopped EXCEPT ![a].config = config, ![a].checkers = W.new],
         ok |-> W.ok]

\* Checkers of Real a that run in its pool and that m.checkers does not hold.
Orphans(A, a) ==
    {c \in ActorIds : /\ A[c].kind = "checker"
                      /\ A[c].parent = a
                      /\ c \notin Mapped(A[a].checkers)}

\* Real.Stop: the actors stopped, the checkers of m.checkers and the Real;
\* closing the pool then waits for every checker the pool runs.
RealStop(A, a) == Mapped(A[a].checkers) \cup {a}

\* The loop of Service.Reload over the real configurations.  Reloading a
\* known Real whose pool does not run yet blocks in Pool.Add when a checker
\* is to be added.
RECURSIVE ServiceReloadLoop(_, _, _)
ServiceReloadLoop(W, config, i) ==
    IF i > Len(config) \/ ~W.ok THEN W
    ELSE LET cfg   == config[i]
             known == W.old[cfg.key]
             fresh == FreshActor(W.A)
         IN  IF known # 0
             THEN LET r == RealReload(W.A, known, cfg.checkers)
                  IN  ServiceReloadLoop(
                          [W EXCEPT !.A = r.A,
                                    !.ok = /\ r.ok
                                           /\ \/ W.A[known].run # "new"
                                              \/ cfg.checkers = <<>>,
                                    !.new[cfg.key] = known,
                                    !.old[cfg.key] = 0],
                          config, i + 1)
             ELSE IF fresh = 0 THEN [W EXCEPT !.ok = FALSE]
             ELSE ServiceReloadLoop(
                      [W EXCEPT !.A[fresh] = [kind |-> "real", key |-> cfg.key,
                                              run |-> "new", arg |-> <<>>,
                                              config |-> cfg.checkers,
                                              checkers |-> NoCheckers],
                                !.new[cfg.key] = fresh],
                      config, i + 1)

InitReload ==
    /\ actors = [a \in ActorIds |-> NoActor]
    /\ svcReals = NoReals
    /\ svcConfig = <<>>
    /\ reloadHung = FALSE
    /\ reloads = 0

\* Service.Reload(config).  Stop on a Real whose pool runs a checker that
\* m.checkers does not hold never returns, and neither does the reload.
ServiceReload(config) ==
    LET W == ServiceReloadLoop([A |-> actors, old |-> svcReals, new |-> NoReals,
                                ok |-> TRUE], config, 1)
        outdated == Mapped(W.old)
        hanging == {a \in outdated : Orphans(W.A, a) # {}}
    IN  /\ ~reloadHung
        /\ reloads < MaxReloads
        /\ reloads' = reloads + 1
        /\ W.ok
        /\ IF hanging = {}
           THEN /\ actors' = StopActors(W.A,
                                 UNION {Mapped(W.A[a].checkers) \cup {a} :
                                           a \in outdated})
                /\ svcReals' = W.new
                /\ svcConfig' = [i \in DOMAIN config |-> config[i].key]
                /\ UNCHANGED reloadHung
           ELSE /\ \E a \in hanging :
                       actors' = StopActors(W.A, Mapped(W.A[a].checkers))
                /\ reloadHung' = TRUE
                /\ UNCHANGED <<svcReals, svcConfig>>
        /\ UNCHANGED <<pipeVars, calc, schedVars, actVars, flushVars, handVars, annVars, syncVars, lifeVars>>

\* Real.Run in the Service's pool: the initial reload is launched with the
\* configuration the Real holds now, and the pool of checkers runs.
RealRun(a) ==
    /\ ~reloadHung
    /\ actors[a].kind = "real"
    /\ actors[a].run = "new"
    /\ actors' = [actors EXCEPT ![a].run = "initial", ![a].arg = actors[a].config]
    /\ UNCHANGED <<svcReals, svcConfig, reloadHung, reloads, pipeVars, calc, schedVars, actVars, flushVars, handVars, annVars, syncVars, lifeVars>>

\* The initial reload of a Real: Real.Reload with the configuration Run read.
RealInitialReload(a) ==
    /\ ~reloadHung
    /\ actors[a].kind = "real"
    /\ actors[a].run = "initial"
    /\ LET r == RealReload(actors, a, actors[a].arg)
       IN  /\ r.ok
           /\ actors' = [r.A EXCEPT ![a].run = "running", ![a].arg = <<>>]
    /\ UNCHANGED <<svcReals, svcConfig, reloadHung, reloads, pipeVars, calc, schedVars, actVars, flushVars, handVars, annVars, syncVars, lifeVars>>

NextReload ==
    \/ \E config \in ServiceConfigs : ServiceReload(config)
    \/ \E a \in ActorIds : RealRun(a)
    \/ \E a \in ActorIds : RealInitialReload(a)

(***************************************************************************)
(* Run loops and graceful shutdown: Checker.Run and Checker.Stop, the      *)
(* worker pool of a Real, Real.Reload and Real.Stop, and the shutdown      *)
(* sequence of Monalive.Run.  The Real is one that runs (its pool receives *)
(* workers) and that its Service holds until Core.Stop.                    *)
(***************************************************************************)
\* Probes the Checkers run in one behaviour.
MaxProbes == 2

\* The Checkers the configurations of the Real can hold.
LifeCheckers == {2, 3}

\* The Checker's own context: derived from the root, cancelled by the helper
\* goroutine of Run.
ChildDone(c) == ctxDone \/ lc[c].cancelled

\* Checker.eventsWG: Run holds one count from its start to the end of the
\* deferred shutdown event.
EventsPending(c) == lc[c].run \in {"sched", "job"}

\* Pool.wg of the Real's pool of Checkers.
PoolWorkers == {c \in LifeCheckers : lc[c].run \in {"spawned", "sched", "job"}}

\* The type of the last event a Checker handed to its Real.
LastEvent(old, e) == IF e = None THEN old ELSE e.type

InitLife ==
    /\ lc = [c \in LifeCheckers |->
                [alive |-> FALSE, weight |-> ConfigWeight(RealOf(c)), failed |-> 0,
                 run |-> "none", latch |-> FALSE, cancelled |-> FALSE,
                 helper |-> "none", last |-> "none"]]
    /\ rl = [checkers |-> {}, op |-> "idle", todo |-> {}, cur |-> 0,
             config |-> {}, poolRun |-> TRUE, latch |-> FALSE,
             aborted |-> FALSE]
    /\ ctxDone = FALSE
    /\ stage = "run"
    /\ probes = 0

\* Pool.Run took a worker from the channel: it counts it and starts its
\* goroutine.
PoolSpawn(c) ==
    /\ lc[c].run = "queued"
    /\ lc' = [lc EXCEPT ![c].run = "spawned"]
    /\ UNCHANGED <<rl, ctxDone, stage, probes, pipeVars, calc, schedVars, actVars, flushVars, handVars, annVars, syncVars, reloadVars>>

\* Checker.Run up to the scheduler: the events count, the deferred shutdown
\* event, the child context and the helper goroutine.
RunBegin(c) ==
    /\ lc[c].run = "spawned"
    /\ lc' = [lc EXCEPT ![c].run = "sched", ![c].helper = "waiting"]
    /\ UNCHANGED <<rl, ctxDone, stage, probes, pipeVars, calc, schedVars, actVars, flushVars, handVars, annVars, syncVars, reloadVars>>

\* The helper goroutine of Run, the parent context being done: Checker.Stop.
HelperStop(c) ==
    /\ lc[c].helper = "waiting"
    /\ ctxDone
    /\ lc' = [lc EXCEPT ![c].helper = "exit", ![c].latch = TRUE]
    /\ UNCHANGED <<rl, ctxDone, stage, probes, pipeVars, calc, schedVars, actVars, flushVars, handVars, annVars, syncVars, reloadVars>>

\* The helper goroutine of Run, the shutdown latch being closed: cancel().
HelperCancel(c) ==
    /\ lc[c].helper = "waiting"
    /\ lc[c].latch
    /\ lc' = [lc EXCEPT ![c].helper = "exit", ![c].cancelled = TRUE]
    /\ UNCHANGED <<rl, ctxDone, stage, probes, pipeVars, calc, schedVars, actVars, flushVars, handVars, annVars, syncVars, reloadVars>>

\* Scheduler.Run: the timer fires and the job starts; with the timer expired
\* the select may take timer.C although the context is done.
SchedFire(c) ==
    /\ lc[c].run = "sched"
    /\ probes < MaxProbes
    /\ probes' = probes + 1
    /\ lc' = [lc EXCEPT ![c].run = "job"]
    /\ UNCHANGED <<rl, ctxDone, stage, pipeVars, calc, schedVars, actVars, flushVars, handVars, annVars, syncVars, reloadVars>>

\* The job: the probe returns and ProcessCheck handles its result.
JobDone(c) ==
    /\ lc[c].run = "job"
    /\ \E ok \in BOOLEAN :
          LET res == IF ok THEN CheckerProcessSucceed(c, lc[c], Omitted, FALSE)
                     ELSE CheckerProcessFail(c, lc[c], FALSE)
          IN  lc' = [lc EXCEPT ![c] = [res.state EXCEPT
                                          !.run = "sched",
                                          !.last = LastEvent(@, res.event)]]
    /\ UNCHANGED <<rl, ctxDone, stage, probes, pipeVars, calc, schedVars, actVars, flushVars, handVars, annVars, syncVars, reloadVars>>

\* Scheduler.Run returns on the done context and Run returns: the deferred
\* ProcessCheck(ErrShutdown).
RunDeferred(c) ==
    /\ lc[c].run = "sched"
    /\ ChildDone(c)
    /\ LET res == CheckerProcessFail(c, lc[c], TRUE)
       IN  lc' = [lc EXCEPT ![c] = [res.state EXCEPT
                                       !.run = "done",
                                       !.last = LastEvent(@, res.event)]]
    /\ UNCHANGED <<rl, ctxDone, stage, probes, pipeVars, calc, schedVars, actVars, flushVars, handVars, annVars, syncVars, reloadVars>>

\* Real.Reload(config), called by Service.Reload under the Service's lock:
\* the Checkers new to the Real are constructed and handed to the pool, and
\* Stop is to be called on those config does not hold.
LifeReloadBegin(config) ==
    /\ stage = "run"
    /\ rl.op = "idle"
    /\ ~rl.latch
    /\ \A c \in config \ rl.checkers : lc[c].run = "none"
    /\ lc' = [c \in LifeCheckers |->
                 IF c \in config \ rl.checkers
                 THEN [lc[c] EXCEPT !.run = "queued"]
                 ELSE lc[c]]
    /\ rl' = [rl EXCEPT !.op = "reload", !.todo = rl.checkers \ config,
                        !.config = config]
    /\ UNCHANGED <<ctxDone, stage, probes, pipeVars, calc, schedVars, actVars, flushVars, handVars, annVars, syncVars, reloadVars>>

\* Checker.Stop, called by Real.Reload or Real.Stop: the latch is closed.
StopNext(c) ==
    /\ rl.op \in {"reload", "stop"}
    /\ rl.cur = 0
    /\ c \in rl.todo
    /\ lc' = [lc EXCEPT ![c].latch = TRUE]
    /\ rl' = [rl EXCEPT !.cur = c, !.todo = @ \ {c}]
    /\ UNCHANGED <<ctxDone, stage, probes, pipeVars, calc, schedVars, actVars, flushVars, handVars, annVars, syncVars, reloadVars>>

\* Checker.Stop returns: no event of the Checker is pending.
StopWaited ==
    /\ rl.cur # 0
    /\ ~EventsPending(rl.cur)
    /\ rl' = [rl EXCEPT !.cur = 0]
    /\ UNCHANGED <<lc, ctxDone, stage, probes, pipeVars, calc, schedVars, actVars, flushVars, handVars, annVars, syncVars, reloadVars>>

\* Real.Reload saves the configuration and the new map, and returns.
LifeReloadEnd ==
    /\ rl.op = "reload"
    /\ rl.todo = {}
    /\ rl.cur = 0
    /\ rl' = [rl EXCEPT !.op = "idle", !.checkers = rl.config]
    /\ UNCHANGED <<lc, ctxDone, stage, probes, pipeVars, calc, schedVars, actVars, flushVars, handVars, annVars, syncVars, reloadVars>>

\* Core.Stop calls Service.Stop, which calls Real.Stop: the latches are
\* closed and the locks taken, Stop is to be called on every Checker of
\* m.checkers.
RealStopBegin ==
    /\ stage = "coreStopping"
    /\ rl.op = "idle"
    /\ rl' = [rl EXCEPT !.op = "stop", !.todo = rl.checkers]
    /\ UNCHANGED <<lc, ctxDone, stage, probes, pipeVars, calc, schedVars, actVars, flushVars, handVars, annVars, syncVars, reloadVars>>

\* Real.Stop, called by Service.Stop or by a Service.Reload whose
\* configuration does not hold the Real: shutdown.Do(), the lock of the
\* Real's checkers not yet taken.
RealStopCall ==
    /\ stage \in {"run", "coreStopping"}
    /\ rl.op = "idle"
    /\ ~rl.latch
    /\ rl' = [rl EXCEPT !.latch = TRUE]
    /\ UNCHANGED <<lc, ctxDone, stage, probes, pipeVars, calc, schedVars, actVars, flushVars, handVars, annVars, syncVars, reloadVars>>

\* The initial Real.Reload, which Real.Run launched in a goroutine of its
\* own, finds the latch closed after the entries done of its configuration:
\* the known Checkers among them were deleted from m.checkers, the new ones
\* were handed to the pool, and Reload returns without saving the new map.
LifeReloadAbort(done) ==
    /\ rl.latch
    /\ rl.op = "idle"
    /\ ~rl.aborted
    /\ \A c \in done \ rl.checkers : lc[c].run = "none"
    /\ lc' = [c \in LifeCheckers |->
                 IF c \in done \ rl.checkers
                 THEN [lc[c] EXCEPT !.run = "queued"]
                 ELSE lc[c]]
    /\ rl' = [rl EXCEPT !.checkers = @ \ done, !.aborted = TRUE]
    /\ UNCHANGED <<ctxDone, stage, probes, pipeVars, calc, schedVars, actVars, flushVars, handVars, annVars, syncVars, reloadVars>>

\* Real.Stop takes the lock: Stop is to be called on every Checker of
\* m.checkers.
RealStopLock ==
    /\ rl.latch
    /\ rl.op = "idle"
    /\ rl' = [rl EXCEPT !.op = "stop", !.todo = rl.checkers]
    /\ UNCHANGED <<lc, ctxDone, stage, probes, pipeVars, calc, schedVars, actVars, flushVars, handVars, annVars, syncVars, reloadVars>>

\* Real.Stop: Pool.Close closes the channel of the pool.
PoolClose ==
    /\ rl.op = "stop"
    /\ rl.todo = {}
    /\ rl.cur = 0
    /\ rl' = [rl EXCEPT !.op = "closing"]
    /\ UNCHANGED <<lc, ctxDone, stage, probes, pipeVars, calc, schedVars, actVars, flushVars, handVars, annVars, syncVars, reloadVars>>

\* Pool.Close returns when the wait group is at zero, and Real.Stop returns.
RealStopReturn ==
    /\ rl.op = "closing"
    /\ PoolWorkers = {}
    /\ rl' = [rl EXCEPT !.op = "stopped"]
    /\ UNCHANGED <<lc, ctxDone, stage, probes, pipeVars, calc, schedVars, actVars, flushVars, handVars, annVars, syncVars, reloadVars>>

\* Pool.Run, which is Real.Run, returns: the channel is closed and the loop
\* holds no worker.
PoolRunReturn ==
    /\ rl.poolRun
    /\ rl.op \in {"closing", "stopped"}
    /\ \A c \in LifeCheckers : lc[c].run # "queued"
    /\ rl' = [rl EXCEPT !.poolRun = FALSE]
    /\ UNCHANGED <<lc, ctxDone, stage, probes, pipeVars, calc, schedVars, actVars, flushVars, handVars, annVars, syncVars, reloadVars>>

\* The root context is cancelled.
CtxCancel ==
    /\ ~ctxDone
    /\ ctxDone' = TRUE
    /\ UNCHANGED <<lc, rl, stage, probes, pipeVars, calc, schedVars, actVars, flushVars, handVars, annVars, syncVars, reloadVars>>

\* Monalive.Run, the context being done: server.Stop().
ServerStop ==
    /\ ctxDone
    /\ stage = "run"
    /\ stage' = "serverStopped"
    /\ UNCHANGED <<lc, rl, ctxDone, probes, pipeVars, calc, schedVars, actVars, flushVars, handVars, annVars, syncVars, reloadVars>>

\* Monalive.Run: core.Stop() is called.
CoreStop ==
    /\ stage = "serverStopped"
    /\ stage' = "coreStopping"
    /\ UNCHANGED <<lc, rl, ctxDone, probes, pipeVars, calc, schedVars, actVars, flushVars, handVars, annVars, syncVars, reloadVars>>

\* core.Stop() returns: Real.Stop has returned, and Real.Run, for which the
\* pool of the Service waits.
CoreStopped ==
    /\ stage = "coreStopping"
    /\ rl.op = "stopped"
    /\ ~rl.poolRun
    /\ stage' = "coreStopped"
    /\ UNCHANGED <<lc, rl, ctxDone, probes, pipeVars, calc, schedVars, actVars, flushVars, handVars, annVars, syncVars, reloadVars>>

\* Monalive.Run: balancer.Stop(), announcer.Stop(), tunneler.Stop().
BalancerSyncStop ==
    /\ stage = "coreStopped"
    /\ stage' = "balancerStopped"
    /\ UNCHANGED <<lc, rl, ctxDone, probes, pipeVars, calc, schedVars, actVars, flushVars, handVars, annVars, syncVars, reloadVars>>

AnnouncerSyncStop ==
    /\ stage = "balancerStopped"
    /\ stage' = "announcerStopped"
    /\ UNCHANGED <<lc, rl, ctxDone, probes, pipeVars, calc, schedVars, actVars, flushVars, handVars, annVars, syncVars, reloadVars>>

TunnelerStop ==
    /\ stage = "announcerStopped"
    /\ stage' = "tunnelerStopped"
    /\ UNCHANGED <<lc, rl, ctxDone, probes, pipeVars, calc, schedVars, actVars, flushVars, handVars, annVars, syncVars, reloadVars>>

NextLife ==
    \/ \E c \in LifeCheckers : PoolSpawn(c)
    \/ \E c \in LifeCheckers : RunBegin(c)
    \/ \E c \in LifeCheckers : HelperStop(c)
    \/ \E c \in LifeCheckers : HelperCancel(c)
    \/ \E c \in LifeCheckers : SchedFire(c)
    \/ \E c \in LifeCheckers : JobDone(c)
    \/ \E c \in LifeCheckers : RunDeferred(c)
    \/ \E config \in SUBSET LifeCheckers : LifeReloadBegin(config)
    \/ \E c \in LifeCheckers : StopNext(c)
    \/ StopWaited
    \/ LifeReloadEnd
    \/ RealStopBegin
    \/ PoolClose
    \/ RealStopReturn
    \/ PoolRunReturn
    \/ CtxCancel
    \/ ServerStop
    \/ CoreStop
    \/ CoreStopped
    \/ BalancerSyncStop
    \/ AnnouncerSyncStop
    \/ TunnelerStop

\* The run loops and the shutdown with a Real.Stop that meets a Real.Reload
\* in progress.
NextLifeAbort ==
    \/ NextLife
    \/ RealStopCall
    \/ \E done \in SUBSET LifeCheckers : LifeReloadAbort(done)
    \/ RealStopLock

(***************************************************************************)
(* The activation gate: Real.Run waits in waitActivation for the Service's *)
(* activation function, which asks the Balancer for a subscription on the  *)
(* Real's balancer key.  The stater replaces the state snapshot and closes *)
(* the notification channel; the subscription goroutine wakes and looks    *)
(* the key up.                                                             *)
(***************************************************************************)
\* Lookup counting every key as present.
LookupAlways(state, key) == TRUE

\* State.Lookup on a snapshot holding the keys of the set state.
Lookup(state, key) == key \in state

\* The receive counting a closed subscription as activated.
activatedAlways(ch) == ch \in {"value", "closed"}

\* realActivationFunc: what the receive from the subscription returns.
activated(ch) == ch = "value"

InitActivation ==
    /\ balState = {}
    /\ balShutdown = FALSE
    /\ stater = "running"
    /\ realRun = [r \in RealKeys |-> "new"]
    /\ realShutdown = [r \in RealKeys |-> FALSE]
    /\ actCtx = [r \in RealKeys |-> FALSE]
    /\ sub = [r \in RealKeys |-> "none"]
    /\ notified = [r \in RealKeys |-> FALSE]
    /\ notify = [r \in RealKeys |-> "empty"]
    /\ launched = [r \in RealKeys |-> FALSE]
    /\ emitted = [r \in RealKeys |-> FALSE]
    /\ everPresent = [r \in RealKeys |-> FALSE]
    /\ refreshed = [r \in RealKeys |-> FALSE]
    /\ adding = 0

\* Balancer.stater: GetState answered, State.Update replaces the snapshot
\* and closes the notification channel the subscribers hold.
StateUpdate(state) ==
    /\ stater = "running"
    /\ balState' = state
    /\ notified' = [r \in RealKeys |-> notified[r] \/ sub[r] = "wait"]
    /\ everPresent' = [r \in RealKeys |-> everPresent[r] \/ r \in state]
    /\ refreshed' = [r \in RealKeys |->
                       refreshed[r]
                         \/ (r \in state /\ sub[r] \in {"start", "wait", "lookup"})]
    /\ UNCHANGED <<pipeVars, calc, schedVars, flushVars, handVars, annVars, syncVars, reloadVars,
                   lifeVars, adding, balShutdown, stater, realRun, realShutdown, actCtx, sub,
                   notify, launched, emitted>>

\* Balancer.Stop.
BalancerShutdown ==
    /\ ~balShutdown
    /\ balShutdown' = TRUE
    /\ UNCHANGED <<pipeVars, calc, schedVars, flushVars, handVars, annVars, syncVars, reloadVars,
                   lifeVars, adding, balState, stater, realRun, realShutdown, actCtx, sub,
                   notified, notify, launched, emitted, everPresent, refreshed>>

\* Balancer.stater: the shutdown branch of its select.
StaterReturn ==
    /\ stater = "running" /\ balShutdown
    /\ stater' = "returned"
    /\ UNCHANGED <<pipeVars, calc, schedVars, flushVars, handVars, annVars, syncVars, reloadVars,
                   lifeVars, adding, balState, balShutdown, realRun, realShutdown, actCtx, sub,
                   notified, notify, launched, emitted, everPresent, refreshed>>

\* Real.Run up to the select of the activation function: LookupSubscription
\* returns nil when the key is in the snapshot, else starts the goroutine.
RunWaitActivation(r) ==
    /\ realRun[r] = "new"
    /\ IF Lookup(balState, r)
       THEN /\ realRun' = [realRun EXCEPT ![r] = "running"]
            /\ UNCHANGED sub
       ELSE /\ realRun' = [realRun EXCEPT ![r] = "select"]
            /\ sub' = [sub EXCEPT ![r] = "start"]
    /\ UNCHANGED <<pipeVars, calc, schedVars, flushVars, handVars, annVars, syncVars, reloadVars,
                   lifeVars, adding, balState, balShutdown, stater, realShutdown, actCtx,
                   notified, notify, launched, emitted, everPresent, refreshed>>

\* The subscription goroutine enters its select: State.Subscribe returns
\* the current notification channel.
SubSubscribe(r) ==
    /\ sub[r] = "start"
    /\ sub' = [sub EXCEPT ![r] = "wait"]
    /\ notified' = [notified EXCEPT ![r] = FALSE]
    /\ UNCHANGED <<pipeVars, calc, schedVars, flushVars, handVars, annVars, syncVars, reloadVars,
                   lifeVars, adding, balState, balShutdown, stater, realRun, realShutdown,
                   actCtx, notify, launched, emitted, everPresent, refreshed>>

\* The select takes ctx.Done or shutdown.Done: the deferred close(notify).
SubCancelled(r) ==
    /\ sub[r] = "wait"
    /\ actCtx[r] \/ balShutdown
    /\ sub' = [sub EXCEPT ![r] = "done"]
    /\ notify' = [notify EXCEPT ![r] = "closed"]
    /\ UNCHANGED <<pipeVars, calc, schedVars, flushVars, handVars, annVars, syncVars, reloadVars,
                   lifeVars, adding, balState, balShutdown, stater, realRun, realShutdown,
                   actCtx, notified, launched, emitted, everPresent, refreshed>>

\* The select takes the closed notification channel.
SubWake(r) ==
    /\ sub[r] = "wait"
    /\ notified[r]
    /\ sub' = [sub EXCEPT ![r] = "lookup"]
    /\ UNCHANGED <<pipeVars, calc, schedVars, flushVars, handVars, annVars, syncVars, reloadVars,
                   lifeVars, adding, balState, balShutdown, stater, realRun, realShutdown,
                   actCtx, notified, notify, launched, emitted, everPresent,
                   refreshed>>

\* The lookup after a wake: notify and return when found, else loop.
SubLookup(r) ==
    /\ sub[r] = "lookup"
    /\ IF Lookup(balState, r)
       THEN /\ sub' = [sub EXCEPT ![r] = "done"]
            /\ notify' = [notify EXCEPT ![r] = "value"]
       ELSE /\ sub' = [sub EXCEPT ![r] = "start"]
            /\ UNCHANGED notify
    /\ UNCHANGED <<pipeVars, calc, schedVars, flushVars, handVars, annVars, syncVars, reloadVars,
                   lifeVars, adding, balState, balShutdown, stater, realRun, realShutdown,
                   actCtx, notified, launched, emitted, everPresent, refreshed>>

\* The select of the activation function and the rest of Real.Run: not
\* activated returns early, activated runs the worker pool.
RunSelect(r) ==
    /\ realRun[r] = "select"
    /\ \/ /\ actCtx[r]
          /\ realRun' = [realRun EXCEPT ![r] = "returned"]
       \/ /\ notify[r] # "empty"
          /\ realRun' = [realRun EXCEPT ![r] =
                            IF activated(notify[r]) THEN "running" ELSE "returned"]
    /\ UNCHANGED <<pipeVars, calc, schedVars, flushVars, handVars, annVars, syncVars, reloadVars,
                   lifeVars, adding, balState, balShutdown, stater, realShutdown, actCtx, sub,
                   notified, notify, launched, emitted, everPresent, refreshed>>

\* Real.Stop: shutdown.Do; the goroutine of waitActivation cancels the
\* context of the activation function.  Stop is called by the Service under
\* the lock that a Service.Reload in progress holds.
RealShutdown(r) ==
    /\ ~realShutdown[r]
    /\ adding = 0
    /\ realShutdown' = [realShutdown EXCEPT ![r] = TRUE]
    /\ UNCHANGED <<pipeVars, calc, schedVars, flushVars, handVars, annVars, syncVars, reloadVars,
                   lifeVars, adding, balState, balShutdown, stater, realRun, actCtx, sub,
                   notified, notify, launched, emitted, everPresent, refreshed>>

ActivationCancel(r) ==
    /\ realShutdown[r] /\ ~actCtx[r]
    /\ actCtx' = [actCtx EXCEPT ![r] = TRUE]
    /\ UNCHANGED <<pipeVars, calc, schedVars, flushVars, handVars, annVars, syncVars, reloadVars,
                   lifeVars, adding, balState, balShutdown, stater, realRun, realShutdown, sub,
                   notified, notify, launched, emitted, everPresent, refreshed>>

\* Real.Reload adds a Checker to the pool; Pool.Add blocks until Pool.Run
\* receives, and Reload aborts once the Real is shut down.
CheckerLaunch(r) ==
    /\ realRun[r] = "running" /\ ~realShutdown[r]
    /\ ~launched[r]
    /\ launched' = [launched EXCEPT ![r] = TRUE]
    /\ UNCHANGED <<pipeVars, calc, schedVars, flushVars, handVars, annVars, syncVars, reloadVars,
                   lifeVars, adding, balState, balShutdown, stater, realRun, realShutdown,
                   actCtx, sub, notified, notify, emitted, everPresent,
                   refreshed>>

\* A running Checker passes an event to Real.HandleEvent.
CheckerEmits(r) ==
    /\ launched[r] /\ ~emitted[r]
    /\ emitted' = [emitted EXCEPT ![r] = TRUE]
    /\ UNCHANGED <<pipeVars, calc, schedVars, flushVars, handVars, annVars, syncVars, reloadVars,
                   lifeVars, adding, balState, balShutdown, stater, realRun, realShutdown,
                   actCtx, sub, notified, notify, launched, everPresent,
                   refreshed>>

\* Core.Reload with a configuration that keeps the Service and the Real and
\* holds a Checker new to the Real: Service.Reload calls Real.Reload, which
\* constructs the Checker and enters Pool.Add with it.
RealReloadAdd(r) ==
    /\ adding = 0
    /\ ~realShutdown[r]
    /\ adding' = r
    /\ UNCHANGED <<pipeVars, calc, schedVars, flushVars, handVars, annVars, syncVars, reloadVars,
                   lifeVars, balState, balShutdown, stater, realRun, realShutdown,
                   actCtx, sub, notified, notify, launched, emitted, everPresent,
                   refreshed>>

\* Pool.Run of the Real receives the worker: the send of Pool.Add completes
\* and Real.Reload, Service.Reload and Core.Reload return.
PoolAddReturns(r) ==
    /\ adding = r
    /\ realRun[r] = "running"
    /\ adding' = 0
    /\ launched' = [launched EXCEPT ![r] = TRUE]
    /\ UNCHANGED <<pipeVars, calc, schedVars, flushVars, handVars, annVars, syncVars, reloadVars,
                   lifeVars, balState, balShutdown, stater, realRun, realShutdown,
                   actCtx, sub, notified, notify, emitted, everPresent, refreshed>>

NextActivation ==
    \/ \E state \in SUBSET RealKeys : StateUpdate(state)
    \/ BalancerShutdown
    \/ StaterReturn
    \/ \E r \in RealKeys : RunWaitActivation(r)
    \/ \E r \in RealKeys : SubSubscribe(r)
    \/ \E r \in RealKeys : SubCancelled(r)
    \/ \E r \in RealKeys : SubWake(r)
    \/ \E r \in RealKeys : SubLookup(r)
    \/ \E r \in RealKeys : RunSelect(r)
    \/ \E r \in RealKeys : RealShutdown(r)
    \/ \E r \in RealKeys : ActivationCancel(r)
    \/ \E r \in RealKeys : CheckerLaunch(r)
    \/ \E r \in RealKeys : CheckerEmits(r)

\* The activation gate with reloads of the Reals the Service holds.
NextReloadGate ==
    \/ NextActivation
    \/ \E r \in RealKeys : RealReloadAdd(r)
    \/ \E r \in RealKeys : PoolAddReturns(r)

(***************************************************************************)
(* Scheduler.Run: one timer for the initial, retry and loop delays, and a  *)
(* select on the context and the timer at every sleep.  A goroutine that   *)
(* is blocked in the select leaves with the first of the two that happens; *)
(* with both ready on entry the select takes either.                       *)
(***************************************************************************)
\* Largest retries of the scheduler configuration, and cycles in one behaviour.
MaxSchedRetries == 2
MaxCycles == 2

\* The retry loop retrying a successful attempt as well.
AfterJobRetriesSuccess(err, i, retries) ==
    IF i = retries THEN "delay_loop" ELSE "retry_delay"

\* The retry loop after job() returned in iteration i: the delay the timer
\* is reset to.
AfterJob(err, i, retries) ==
    IF ~err THEN "delay_loop"
    ELSE IF i = retries THEN "delay_loop"
    ELSE "retry_delay"

InitSched ==
    /\ schedRetries = 0
    /\ schedPc = "new"
    /\ timer = "init_delay"
    /\ fired = FALSE
    /\ schedCtx = FALSE
    /\ tries = 0
    /\ attempts = 0
    /\ lastErr = FALSE
    /\ cycles = 0

\* The timer case of a select is taken: the next statement is job().
StartJob ==
    /\ schedPc' = "job"
    /\ fired' = FALSE
    /\ attempts' = IF timer = "retry_delay" THEN attempts + 1 ELSE 1
    /\ cycles' = IF timer = "retry_delay" THEN cycles ELSE cycles + 1
    /\ UNCHANGED <<schedRetries, timer, schedCtx, tries, lastErr>>

\* scheduler.New with a configuration, and Run up to time.NewTimer.
SchedNew(retries) ==
    /\ UNCHANGED <<pipeVars, calc, actVars, flushVars, handVars, annVars, syncVars,
                   reloadVars, lifeVars>>
    /\ schedPc = "new"
    /\ schedPc' = "check"
    /\ schedRetries' = retries
    /\ UNCHANGED <<timer, fired, schedCtx, tries, attempts, lastErr, cycles>>

\* if ctx.Err() != nil { return ctx.Err() }
SchedCheck ==
    /\ UNCHANGED <<pipeVars, calc, actVars, flushVars, handVars, annVars, syncVars,
                   reloadVars, lifeVars>>
    /\ schedPc = "check"
    /\ schedPc' = IF schedCtx THEN "returned" ELSE "select"
    /\ UNCHANGED <<schedRetries, timer, fired, schedCtx, tries, attempts,
                   lastErr, cycles>>

\* The timer expires; a goroutine blocked in the select takes timer.C.
TimerFires ==
    /\ UNCHANGED <<pipeVars, calc, actVars, flushVars, handVars, annVars, syncVars,
                   reloadVars, lifeVars>>
    /\ ~fired
    /\ schedPc \in {"check", "select", "blocked"}
    /\ timer = "retry_delay" \/ cycles < MaxCycles
    /\ IF schedPc = "blocked"
       THEN StartJob
       ELSE /\ fired' = TRUE
            /\ UNCHANGED <<schedRetries, schedPc, timer, schedCtx, tries,
                           attempts, lastErr, cycles>>

\* The context is cancelled; a goroutine blocked in the select returns.
SchedCancel ==
    /\ UNCHANGED <<pipeVars, calc, actVars, flushVars, handVars, annVars, syncVars,
                   reloadVars, lifeVars>>
    /\ ~schedCtx
    /\ schedCtx' = TRUE
    /\ schedPc' = IF schedPc = "blocked" THEN "returned" ELSE schedPc
    /\ UNCHANGED <<schedRetries, timer, fired, tries, attempts, lastErr, cycles>>

\* The goroutine enters a select: it takes a ready case, either one when
\* both are ready, and blocks when none is.
SchedSelect ==
    /\ UNCHANGED <<pipeVars, calc, actVars, flushVars, handVars, annVars, syncVars,
                   reloadVars, lifeVars>>
    /\ schedPc = "select"
    /\ \/ /\ schedCtx
          /\ schedPc' = "returned"
          /\ UNCHANGED <<schedRetries, timer, fired, schedCtx, tries, attempts,
                         lastErr, cycles>>
       \/ /\ fired
          /\ StartJob
       \/ /\ ~schedCtx /\ ~fired
          /\ schedPc' = "blocked"
          /\ UNCHANGED <<schedRetries, timer, fired, schedCtx, tries, attempts,
                         lastErr, cycles>>

\* job() returns: break or retry, and the timer.Reset before the next select.
JobReturns(err) ==
    /\ UNCHANGED <<pipeVars, calc, actVars, flushVars, handVars, annVars, syncVars,
                   reloadVars, lifeVars>>
    /\ schedPc = "job"
    /\ schedPc' = "select"
    /\ timer' = AfterJob(err, tries, schedRetries)
    /\ tries' = IF AfterJob(err, tries, schedRetries) = "retry_delay"
                THEN tries + 1 ELSE 0
    /\ lastErr' = err
    /\ UNCHANGED <<schedRetries, fired, schedCtx, attempts, cycles>>

NextSched ==
    \/ \E retries \in 0..MaxSchedRetries : SchedNew(retries)
    \/ SchedCheck
    \/ TimerFires
    \/ SchedCancel
    \/ SchedSelect
    \/ \E err \in BOOLEAN : JobReturns(err)

(***************************************************************************)
(* Weight.Recalculate on its own: calls with weights and coefficients of   *)
(* every kind (omitted, zero, equal, apart by less and by more than the    *)
(* step).                                                                  *)
(***************************************************************************)
\* Largest weight of a call, and the dynamic weight coefficients (percent).
MaxWeight == 6
Coeffs == {0, 1, 30, 40, 100, 146}

InitCalc == calc = None

\* weight.Recalculate(old, coeff), as Checker.ProcessCheck calls it.
Recalc(weight, old, coeff) ==
    /\ calc' = [weight |-> weight, old |-> old, coeff |-> coeff,
                result |-> Recalculate(weight, old, coeff)]
    /\ UNCHANGED <<pipeVars, schedVars, actVars, flushVars, handVars, annVars,
                   syncVars, reloadVars, lifeVars>>

NextCalc ==
    \E weight \in -2..MaxWeight, old \in -2..MaxWeight, coeff \in Coeffs :
        Recalc(weight, old, coeff)

Init == InitPipeline /\ InitFlush /\ InitHandlers /\ InitAnnouncer /\ InitSync /\ InitReload /\ InitLife
        /\ InitActivation /\ InitSched /\ InitCalc

SpecReload == Init /\ [][NextReload]_vars

SpecCalc == Init /\ [][NextCalc]_vars

SpecSched == Init /\ [][NextSched]_vars

SpecActivation == Init /\ [][NextActivation]_vars

\* The stater's ticker keeps firing and every goroutine that can step does.
FairSpecActivation ==
    /\ SpecActivation
    /\ WF_vars(\E state \in SUBSET RealKeys : StateUpdate(state))
    /\ \A r \in RealKeys :
          /\ WF_vars(RunWaitActivation(r))
          /\ WF_vars(SubSubscribe(r))
          /\ WF_vars(SubCancelled(r))
          /\ WF_vars(SubWake(r))
          /\ WF_vars(SubLookup(r))
          /\ WF_vars(RunSelect(r))
          /\ WF_vars(ActivationCancel(r))

SpecReloadGate == Init /\ [][NextReloadGate]_vars

\* As FairSpecActivation, and the loop of Pool.Run receives a worker that is
\* being sent to it.
FairSpecReloadGate ==
    /\ SpecReloadGate
    /\ WF_vars(\E state \in SUBSET RealKeys : StateUpdate(state))
    /\ \A r \in RealKeys :
          /\ WF_vars(RunWaitActivation(r))
          /\ WF_vars(SubSubscribe(r))
          /\ WF_vars(SubCancelled(r))
          /\ WF_vars(SubWake(r))
          /\ WF_vars(SubLookup(r))
          /\ WF_vars(RunSelect(r))
          /\ WF_vars(ActivationCancel(r))
          /\ WF_vars(PoolAddReturns(r))

SpecLife == Init /\ [][NextLife]_vars

\* The goroutines of a Checker that can take a step take it: the helper, the
\* job (a probe ends by its timeout) and the return of the run loop.
FairSpecLife ==
    /\ SpecLife
    /\ \A c \in LifeCheckers :
           /\ WF_vars(HelperCancel(c))
           /\ WF_vars(JobDone(c))
           /\ WF_vars(RunDeferred(c))

SpecLifeAbort == Init /\ [][NextLifeAbort]_vars

\* As FairSpecLife, and the pool starts the workers it received, the run
\* loops start, and Real.Stop, once called, takes each of its steps.
FairSpecLifeAbort ==
    /\ SpecLifeAbort
    /\ \A c \in LifeCheckers :
           /\ WF_vars(PoolSpawn(c))
           /\ WF_vars(RunBegin(c))
           /\ WF_vars(HelperCancel(c))
           /\ WF_vars(HelperStop(c))
           /\ WF_vars(JobDone(c))
           /\ WF_vars(RunDeferred(c))
           /\ WF_vars(StopNext(c))
    /\ WF_vars(RealStopLock)
    /\ WF_vars(StopWaited)
    /\ WF_vars(PoolClose)
    /\ WF_vars(RealStopReturn)

SpecAnnouncer == Init /\ [][NextAnnouncer]_vars

SpecSync == Init /\ [][NextSync]_vars

SpecHandlers == Init /\ [][NextHandlers]_vars

SpecFlush == Init /\ [][NextFlush]_vars

\* The pipeline while the application runs.
Next ==
    \/ \E c \in CheckerIds : ProcessCheck(c)
    \/ \E c \in CheckerIds : RemoveChecker(c)
    \/ \E c \in CheckerIds : AddChecker(c)
    \/ \E r \in RealKeys : ReloadReal(r)
    \/ \E c \in CheckerIds : ServiceProcessEvent(c)
    \/ \E c \in CheckerIds : BalancerHandleEvent(c)
    \/ \E c \in CheckerIds : AnnouncerReadAlive(c)
    \/ \E c \in CheckerIds : AnnouncerUpdateService(c)
    \/ UpdaterTick

Spec == Init /\ [][Next]_vars

\* The pipeline with the graceful shutdown of the application, the set of
\* Checkers staying as configured.
NextStop ==
    \/ \E c \in CheckerIds : ProcessCheck(c)
    \/ \E r \in RealKeys : ReloadReal(r)
    \/ \E c \in CheckerIds : ServiceProcessEvent(c)
    \/ \E c \in CheckerIds : BalancerHandleEvent(c)
    \/ \E c \in CheckerIds : AnnouncerReadAlive(c)
    \/ \E c \in CheckerIds : AnnouncerUpdateService(c)
    \/ UpdaterTick
    \/ \E c \in CheckerIds : CheckerStop(c)
    \/ UpdaterShutdown
    \/ CoreStopBegin
    \/ CoreStopReturn
    \/ BalancerStop

SpecStop == Init /\ [][NextStop]_vars

(***************************************************************************)
(* Properties of the pipeline.                                             *)
(***************************************************************************)
Quiescent == \A c \in CheckerIds : pc[c] = "idle"

\* The weight a Real reports: State.Status, 0 for a disabled Real.
ReportedWeight(r) ==
    IF Status(real[r]).enable THEN Status(real[r]).weight ELSE 0

RECURSIVE SumReported(_)
SumReported(S) ==
    IF S = {} THEN 0
    ELSE LET r == CHOOSE x \in S : TRUE
         IN  ReportedWeight(r) + SumReported(S \ {r})

\* C1: the Service's alive flag goes from false to true only in a step after
\* which the aggregate weight is at least quorum+hysteresis, and from true to
\* false only in a step after which the aggregate weight is below
\* quorum-hysteresis or zero; in every other step it keeps its value.
C1_AliveFollowsQuorumBand ==
    [][/\ (~svc.alive /\ svc'.alive) =>
             svc'.weight >= cfgQuorum + cfgHysteresis
       /\ (svc.alive /\ ~svc'.alive) =>
             (svc'.weight < cfgQuorum - cfgHysteresis \/ svc'.weight = 0)
       /\ (/\ svc'.weight < cfgQuorum + cfgHysteresis
           /\ svc'.weight >= cfgQuorum - cfgHysteresis
           /\ svc'.weight # 0) => svc'.alive = svc.alive]_vars

\* The Service is alive with an aggregate weight inside the band: it went up
\* earlier and a later event left it holding.
C1_Witness ==
    /\ svc.alive
    /\ svc.weight < cfgQuorum + cfgHysteresis
    /\ svc.weight >= cfgQuorum - cfgHysteresis
    /\ svc.weight # 0

\* C2: whenever every emitted event has been handled, the Service's aggregate
\* weight is the sum of the weights its Reals report (0 for an inhibited or
\* disabled Real) and reals_alive is the number of Reals reported enabled.
C2_AggregateMatchesReals ==
    Quiescent =>
        /\ svc.weight = SumReported(RealKeys)
        /\ svc.realsAlive = Cardinality({r \in RealKeys : Status(real[r]).enable})

\* C3: the weight in a status a Real puts into a forwarded event is 0 when the
\* Real is inhibited and the Real's weight otherwise: the init status is the
\* status before the step, the new status of an enabling event the status
\* after it.
C3_ReportedWeight ==
    [][\A c \in CheckerIds :
         (pc[c] = "idle" /\ pc'[c] = "svc") =>
            LET before == real[RealOf(c)]
                after  == real'[RealOf(c)]
                e      == ev'[c]
            IN  /\ e.init.weight = (IF before.inhibited THEN 0 ELSE before.weight)
                /\ e.new.enable =>
                      e.new.weight = (IF after.inhibited THEN 0 ELSE after.weight)]_vars

\* A Real was inhibited by a failure and forwarded an event that reports it
\* enabled with weight 0 while its own weight is not 0.
C3_Witness ==
    \E c \in CheckerIds :
        /\ pc[c] = "svc"
        /\ ev[c].new = [enable |-> TRUE, weight |-> 0]
        /\ real[RealOf(c)].inhibited
        /\ real[RealOf(c)].weight # 0

\* C5: within one run of updateBalancer the client never receives both an
\* EnableReal and a DisableReal for the same key.
C5_OneEffectPerKey ==
    \A a \in flushCalls, b \in flushCalls : a.key = b.key => a.op = b.op

\* One run called the client for two keys: EnableReal for one, and a single
\* DisableReal for the other, whose pending entry was merged from an enabling
\* and a disabling event.
C5_Witness ==
    \E a \in flushCalls, b \in flushCalls :
        /\ a.key # b.key
        /\ a.op = "EnableReal"
        /\ b.op = "DisableReal"

\* C6: when an event is stored for a key that has a pending entry, the entry
\* is removed if the incoming new status equals the pending init status;
\* otherwise the entry keeps its init status and takes the incoming new status.
C6_MergeRule ==
    [][\A c \in CheckerIds :
         (pc[c] = "bal" /\ pc'[c] # "bal" /\ registry[RealOf(c)] # None) =>
            LET old == registry[RealOf(c)]
                now == registry'[RealOf(c)]
            IN  IF ev[c].new = old.init
                THEN now = None
                ELSE now # None /\ now.init = old.init /\ now.new = ev[c].new]_vars

\* A pending entry that was merged: its init status is disabled, from a first
\* enabling event, and its new status is disabled, from a later event.
C6_Witness ==
    \E r \in RealKeys :
        /\ registry[r] # None
        /\ ~registry[r].init.enable
        /\ ~registry[r].new.enable

\* C10: after a graceful shutdown in which no client call failed, no Real is
\* left enabled at the balancer: the last call the client received for every
\* key it ever enabled is a DisableReal (followed by the Flush of its run).
C10_FinalDisable ==
    (app = "exited" /\ ~clientFailed) =>
        \A r \in RealKeys : lastCall[r].op # "EnableReal"

\* C4: a prefix is Ready if and only if its set of bound services is not
\* empty and every service of the set reported Enabled most recently.
C4_ReadyIffAllEnabled ==
    \A p \in AnnPrefixes :
        prefixes[p] # NoPrefix =>
            (prefixStatus(prefixes[p]) <=>
                /\ prefixes[p].services # {}
                /\ \A x \in prefixes[p].services : reported[x])

(***************************************************************************)
(* Properties of the actor lifecycle.                                      *)
(***************************************************************************)
RealActors(k) ==
    {a \in ActorIds : actors[a].kind = "real" /\ actors[a].key = k}

CheckerActors(a, k) ==
    {c \in ActorIds : /\ actors[c].kind = "checker"
                      /\ actors[c].parent = a
                      /\ actors[c].key = k}

\* C7: whenever no reload is in progress, each Real key of the Service's
\* configuration has exactly one running Real actor and each Checker key of a
\* Real's configuration exactly one running Checker actor, and no actor runs
\* for a key the configuration does not hold.
C7_OneActorPerKey ==
    ~reloadHung =>
        /\ \A k \in RealKeys :
               Cardinality(RealActors(k)) = IF k \in Elems(svcConfig) THEN 1 ELSE 0
        /\ \A a \in ActorIds :
               actors[a].kind = "real" /\ actors[a].run = "running" =>
                   \A k \in CheckerKeys :
                       Cardinality(CheckerActors(a, k)) =
                           IF k \in Elems(actors[a].config) THEN 1 ELSE 0

(***************************************************************************)
(* Properties of the run loops and of the graceful shutdown.               *)
(***************************************************************************)
\* C8: a Checker whose run loop was started emits a Shutdown event when it
\* stops, through Stop (the latch) or through the cancelled context, and the
\* Shutdown event is the last event it emits.
C8_ShutdownIsLast ==
    /\ [](\A c \in LifeCheckers : lc[c].run = "done" => lc[c].last = "shutdown")
    /\ [][\A c \in LifeCheckers :
             lc[c].last = "shutdown" => lc'[c].last = "shutdown"]_vars
    /\ \A c \in LifeCheckers :
           (EventsPending(c) /\ (lc[c].latch \/ ctxDone)) ~> (lc[c].run = "done")

\* A Checker that a probe had enabled was stopped by Checker.Stop, the
\* context not being cancelled, and its run loop has returned.
C8_Witness ==
    \E c \in LifeCheckers :
        /\ lc[c].run = "done"
        /\ lc[c].alive
        /\ lc[c].latch
        /\ ~ctxDone
        /\ lc[c].last = "shutdown"

\* C9: the components stop in the order admin server, Core, BalancerSync,
\* AnnouncerSync, tunneling daemon; when BalancerSync.Stop is called, Core.Stop
\* has returned and every Checker has stopped.
C9_CoreStoppedBeforeBalancer ==
    stage \in {"balancerStopped", "announcerStopped", "tunnelerStopped"} =>
        /\ rl.op = "stopped"
        /\ \A c \in LifeCheckers : lc[c].run \in {"none", "done"}

\* C11: when Announcer.Stop has shut the client down, removeAll has sent, for
\* every announce group that has prefixes, its final batch marking them
\* Unready, and no batch sent after the final batch of a group announces one
\* of its prefixes Ready.
C11_FinalWithdrawal ==
    /\ clientDown =>
          \A i \in DOMAIN AnnounceGroup :
              GetPrefixes(AnnounceGroup[i]) # {} => AnnounceGroup[i] \in finalSent
    /\ lateReady = {}

\* C12: a failed probe that is not a shutdown increments failed_attempts;
\* while the counter is at most retries the Checker keeps its status and
\* emits nothing, and once it exceeds retries the Checker is Disabled and
\* emits a Disable event without a weight.
C12_FailedAttempts ==
    [][\A c \in CheckerIds :
          (hsteps' = hsteps + 1 /\ hlast'.kind = "fail" /\ hlast'.checker = c) =>
              /\ hchk'[c].failed = hchk[c].failed + 1
              /\ hchk'[c].weight = hchk[c].weight
              /\ IF hchk'[c].failed <= GetRetries(c)
                 THEN /\ hchk'[c].alive = hchk[c].alive
                      /\ hlast'.emitted = None
                 ELSE /\ ~hchk'[c].alive
                      /\ hlast'.emitted # None
                      /\ hlast'.emitted.type = "disable"
                      /\ hlast'.emitted.new.weight = Omitted]_vars

\* A Checker with retries left has failed a probe silently, and one has
\* been disabled by a failure.
C12_Witness ==
    /\ hlast.kind = "fail"
    /\ hlast.emitted # None
    /\ hlast.checker = 3
    /\ hchk[3].failed = GetRetries(3) + 1

\* C13 as stated: whenever a Checker has emitted a Disable event, its
\* failed_attempts counter is at most retries + 1.
C13_DisableWithinRetries ==
    \A c \in CheckerIds :
        (hlast.checker = c /\ hlast.emitted.type = "disable") =>
            hchk[c].failed <= GetRetries(c) + 1

\* C13 amended: a Disable event is emitted with failed_attempts above
\* retries, and with exactly retries + 1 when it disables an alive Checker
\* or is the first one after the counter was at most retries.
C13_DisableAtThreshold ==
    [][\A c \in CheckerIds :
          (hsteps' = hsteps + 1 /\ hlast'.checker = c
             /\ hlast'.emitted.type = "disable") =>
              /\ hchk'[c].failed > GetRetries(c)
              /\ (hchk[c].alive \/ hchk[c].failed <= GetRetries(c)) =>
                     hchk'[c].failed = GetRetries(c) + 1]_vars

\* The Checker of Real 2, enabled before, is disabled by its second failure.
C13_Witness ==
    /\ hlast.kind = "fail"
    /\ hlast.checker = 3
    /\ hlast.emitted.type = "disable"
    /\ hlast.forwarded # None
    /\ hlast.forwarded.init.enable
    /\ hchk[3].failed = GetRetries(3) + 1

C15_ShutdownDisablesReal ==
    [][\A c \in CheckerIds :
          (/\ hsteps' = hsteps + 1
           /\ hlast'.kind = "shutdown" /\ hlast'.checker = c
           /\ (hreal[RealOf(c)].alive \/ hreal[RealOf(c)].inhibited)) =>
              /\ ~hreal'[RealOf(c)].alive
              /\ hreal'[RealOf(c)].weight = hreal[RealOf(c)].weight
              /\ hlast'.forwarded # None
              /\ hlast'.forwarded.type = "shutdown"
              /\ hlast'.forwarded.init = Status(hreal[RealOf(c)])]_vars

\* C16: a successful probe without the force flag on a Checker that is
\* already Enabled and whose recomputed weight equals its weight emits no
\* event and leaves the Checker as it was; a Real that receives an Enable
\* which changes neither its status nor its weight forwards nothing.
C16_EnableIdempotent ==
    [][\A c \in CheckerIds :
          /\ (/\ hsteps' = hsteps + 1
              /\ hlast'.kind = "succeed" /\ hlast'.checker = c
              /\ hchk[c].alive
              /\ hchk'[c].weight = hchk[c].weight) =>
                 /\ hlast'.emitted = None
                 /\ hchk'[c] = hchk[c]
                 /\ hreal' = hreal
          /\ (/\ hsteps' = hsteps + 1
              /\ hlast'.checker = c
              /\ hlast'.emitted.type = "enable"
              /\ Status(hreal'[RealOf(c)]) = Status(hreal[RealOf(c)])) =>
                 /\ hlast'.forwarded = None
                 /\ hreal' = hreal]_vars

\* A probe of an enabled Checker has succeeded without emitting an event.
C16_Witness ==
    /\ hlast.kind = "succeed"
    /\ hlast.emitted = None
    /\ hchk[hlast.checker].alive
    /\ hreal[RealOf(hlast.checker)].alive

\* C17: a reload that Announcer.ReloadServices rejects (unknown announce
\* group, or one prefix in two groups) makes Core.Reload return the error
\* and changes neither the running Services nor the announcer's prefix
\* registry, pending events and prefix groups; no undeclared group ever
\* reaches the group registry.
C17_RejectedReloadChangesNothing ==
    /\ [](\A p \in AnnPrefixes :
             groupByPrefix[p] = NoGroup \/ ContainsGroup(groupByPrefix[p]))
    /\ [][reloadErrors' # reloadErrors =>
             /\ reloadErrors' = reloadErrors + 1
             /\ UNCHANGED <<coreServices, prefixes, prefixEvents, reported,
                            groupByPrefix, eventGroup>>]_vars

\* A reload was rejected while Services were running and a prefix was
\* registered with its group.
C17_Witness ==
    /\ reloadErrors > 0
    /\ coreServices # {}
    /\ \E p \in AnnPrefixes : prefixes[p] # NoPrefix /\ groupByPrefix[p] # NoGroup

\* C18: a flush removes a pending event only together with its successful
\* client call; an event whose call returned an error stays in the registry
\* as it was, after the call was attempted, and the client's state for its
\* key is not changed.
C18_FailedEventStays ==
    [][pc' = pc =>
          \A r \in RealKeys :
              registry[r] # None =>
                  \/ /\ registry'[r] = None
                     /\ \E call \in ProcessorCalls(r, registry[r]) :
                           /\ call \in flushCalls'
                           /\ lastCall'[r] = [op |-> call.op, weight |-> call.weight]
                  \/ /\ registry'[r] = registry[r]
                     /\ lastCall'[r] = lastCall[r]
                     /\ registry' # registry =>
                           /\ clientFailed'
                           /\ ProcessorCalls(r, registry[r]) \subseteq flushCalls']_vars

\* A flush has processed the event of one Real while the call for the other
\* failed: that event is still pending.
C18_Witness ==
    \E r, q \in RealKeys :
        /\ clientFailed
        /\ registry[r] # None
        /\ ProcessorCalls(r, registry[r]) \subseteq flushCalls
        /\ registry[q] = None
        /\ \E call \in flushCalls : call.key = q

\* C19: when the updater's ProcessBatch fails for a group, the prefix status
\* events of that batch are still pending in the announcer's event registry
\* afterwards, to be sent on the next tick.
C19_FailedBatchStaysPending ==
    [][(updPc = "sending" /\ updBatch' # updBatch /\ sendErr') =>
          \A p \in AnnPrefixes :
              (updBatch[p] # NoBatch /\ updBatch'[p] = NoBatch) =>
                  prefixEvents'[p] = updBatch[p].status]_vars

\* C20 as stated: a run of updateBalancer calls the client's Flush when it
\* applied at least one pending event and not otherwise, and a run that
\* follows another run with no event stored in between calls no Flush.
C20_SecondRunNoFlush ==
    [][runs' # runs =>
          /\ (FlushCall \in flushCalls') <=>
                (\E r \in RealKeys : registry[r] # None /\ registry'[r] = None)
          /\ quiet => FlushCall \notin flushCalls']_vars

\* C20 amended: a run calls Flush when it applied at least one pending event
\* and not otherwise; a run that follows another with no event stored in
\* between calls Flush only when it applies an event whose call failed in
\* the run before, so never when that run left nothing pending.
C20_FlushIffProcessed ==
    [][runs' # runs =>
          /\ (FlushCall \in flushCalls') <=>
                (\E r \in RealKeys : registry[r] # None /\ registry'[r] = None)
          /\ (quiet /\ FlushCall \in flushCalls') =>
                \E r \in RealKeys :
                    /\ registry[r] # None /\ registry'[r] = None
                    /\ ProcessorCalls(r, registry[r]) \subseteq flushCalls
                    /\ FlushCall \in flushCalls'
          /\ (quiet /\ \A r \in RealKeys : registry[r] = None) =>
                flushCalls' = {}]_vars

\* A second run with nothing stored in between has called no client method,
\* after a first run that applied an event and called Flush.
C20_Witness ==
    /\ runs = 2
    /\ quiet
    /\ flushCalls = {}
    /\ \E r \in RealKeys : lastCall[r] # NoCall
    /\ inputs = 1

(***************************************************************************)
(* Properties of the prefix registry across reloads.                       *)
(***************************************************************************)
\* C21: ReloadServices leaves unchanged, for every service bound to a
\* prefix both before and after the reload, the service's enabled flag, and
\* the active count of the prefix loses only the removed enabled services.
C21_ReloadKeepsFlags ==
    [][(\E services \in SUBSET AnnServices : ReloadServices(services)) =>
        \A p \in AnnPrefixes :
            (prefixes[p] # NoPrefix /\ prefixes'[p] # NoPrefix) =>
                /\ \A x \in prefixes[p].services \cap prefixes'[p].services :
                      (x \in prefixes'[p].enabled) = (x \in prefixes[p].enabled)
                /\ prefixes'[p].active = prefixes[p].active
                      - Cardinality(prefixes[p].enabled
                                      \ prefixes'[p].services)]_vars

(***************************************************************************)
(* Properties of the activation gate.                                      *)
(***************************************************************************)
\* C22: once LookupSubscription has armed a subscription for an absent
\* key, a later refresh of the snapshot that contains the key leads to a
\* value on the subscription channel, unless the wait is cancelled.
C22_RefreshSignals ==
    \A r \in RealKeys :
        refreshed[r] ~> (notify[r] = "value" \/ actCtx[r] \/ balShutdown)

C30_NoCheckerBeforeActivation ==
    \A r \in RealKeys :
        (realRun[r] = "running" \/ launched[r] \/ emitted[r]) => everPresent[r]

C30_Witness ==
    \E r \in RealKeys :
        /\ notify[r] = "value" /\ launched[r] /\ emitted[r]
        /\ ~Lookup(balState, r)

(***************************************************************************)
(* Properties of the scheduler.                                            *)
(***************************************************************************)
\* C24: between two loop delays the job runs at least once and at most
\* retries + 1 times; a run after the retry delay follows a failed run that
\* was not the last allowed one, and the loop delay follows a successful
\* run or the run number retries + 1.
C24_CycleAttempts ==
    /\ [](attempts <= schedRetries + 1)
    /\ [][(schedPc = "job" /\ schedPc' # "job") =>
            IF lastErr' /\ attempts < schedRetries + 1
            THEN timer' = "retry_delay"
            ELSE timer' = "delay_loop"]_vars
    /\ [][(schedPc # "job" /\ schedPc' = "job") =>
            /\ timer = "retry_delay" => (lastErr /\ attempts' = attempts + 1)
            /\ timer = "delay_loop" =>
                  (attempts >= 1 /\ attempts' = 1
                     /\ (~lastErr \/ attempts = schedRetries + 1))]_vars

C24_Witness ==
    /\ schedRetries = 2 /\ attempts = 3 /\ lastErr
    /\ timer = "delay_loop" /\ schedPc = "blocked"

\* C25: no run of the job starts once the context is cancelled.
C25_NoJobAfterCancel ==
    [][schedCtx => ~(schedPc # "job" /\ schedPc' = "job")]_vars

(***************************************************************************)
(* Properties of the weight recalculation.                                 *)
(***************************************************************************)
\* C26 as stated: with exactly one of old and new omitted the result is the
\* other one, with old = new = W it is W, and otherwise it lies between old
\* and new with a distance from old of at most the smaller of the step
\* max(1, old * coeff / 100) and |new - old|.
C26_StepBounded ==
    calc # None =>
        LET w    == calc.weight
            o    == calc.old
            res  == calc.result
            raw  == (o * calc.coeff) \div 100
            step == IF raw = 0 THEN 1 ELSE raw
            dist == IF w > o THEN w - o ELSE o - w
            move == IF res > o THEN res - o ELSE o - res
        IN  /\ (w < 0 /\ o >= 0) => res = o
            /\ (o < 0 /\ w >= 0) => res = w
            /\ (w >= 0 /\ o = w) => res = w
            /\ (w >= 0 /\ o >= 0) =>
                  /\ Min(o, w) <= res /\ res <= Max(o, w)
                  /\ move <= Min(step, dist)

\* C26, amended: the same, except that with coefficient 0 the result is new
\* itself, and with a positive coefficient the distance from old is exactly
\* the smaller of the step and |new - old|.
C26_StepBoundedOrUnsmoothed ==
    calc # None =>
        LET w    == calc.weight
            o    == calc.old
            res  == calc.result
            raw  == (o * calc.coeff) \div 100
            step == IF raw = 0 THEN 1 ELSE raw
            dist == IF w > o THEN w - o ELSE o - w
            move == IF res > o THEN res - o ELSE o - res
        IN  /\ (w < 0 /\ o >= 0) => res = o
            /\ (o < 0 /\ w >= 0) => res = w
            /\ (w >= 0 /\ o = w) => res = w
            /\ (w >= 0 /\ o >= 0) =>
                  /\ Min(o, w) <= res /\ res <= Max(o, w)
                  /\ IF calc.coeff = 0 THEN res = w
                     ELSE move = Min(step, dist)

C26_Witness ==
    /\ calc # None
    /\ calc.coeff = 40 /\ calc.old = 5 /\ calc.weight = 0 /\ calc.result = 3

(***************************************************************************)
(* Properties of the order of a Real's events.                             *)
(***************************************************************************)
\* C27: the events of one Real reach the Service and the balancer's
\* registry in the order of the state changes that produced them: of two
\* events of a Real in flight, the one further along was produced first, so
\* the status the later one started from is the status the earlier one set.
C27_EventsInMutationOrder ==
    \A c1, c2 \in CheckerIds :
        (/\ c1 # c2 /\ RealOf(c1) = RealOf(c2)
         /\ \/ pc[c1] = "svc" /\ pc[c2] \in {"bal", "ann", "annEnabled", "annDisabled"}
            \/ pc[c1] = "bal" /\ pc[c2] \in {"ann", "annEnabled", "annDisabled"})
        => ev[c1].init = ev[c2].new

(***************************************************************************)
(* Properties of the Real's Shutdown handling and of inhibition switched   *)
(* on by a reload.                                                         *)
(***************************************************************************)
\* C28: a Real drops a Shutdown event exactly when it is Disabled and not
\* inhibited; otherwise it forwards the Shutdown with init set to its status
\* before: enabled with weight 0 when inhibited, enabled with its weight
\* when alive.
C28_ShutdownDropOrForward ==
    [][(hsteps' = hsteps + 1 /\ hlast'.kind = "shutdown") =>
        LET st == hreal[RealOf(hlast'.checker)]
        IN  /\ hlast'.emitted # None /\ hlast'.emitted.type = "shutdown"
            /\ IF ~st.alive /\ ~st.inhibited
               THEN hlast'.forwarded = None
               ELSE /\ hlast'.forwarded # None
                    /\ hlast'.forwarded.type = "shutdown"
                    /\ hlast'.forwarded.init =
                          [enable |-> TRUE,
                           weight |-> IF st.inhibited THEN 0 ELSE st.weight]]_vars

C28_Witness ==
    /\ hlast.kind = "shutdown"
    /\ hlast.forwarded # None
    /\ hreal[RealOf(hlast.checker)].inhibited
    /\ hlast.forwarded.init = [enable |-> TRUE, weight |-> 0]

\* C29: when a Real that is Disabled and not inhibited has
\* inhibit_on_failure on, a failed probe of one of its Checkers that emits
\* Disable makes the Real inhibited and is forwarded as an Enable event with
\* weight 0 whose init status is not enabled.
C29_InhibitAfterReload ==
    [][(hsteps' = hsteps + 1 /\ hlast'.kind = "fail" /\ hlast'.emitted # None) =>
        LET st  == hreal[RealOf(hlast'.checker)]
            st1 == hreal'[RealOf(hlast'.checker)]
        IN  (~st.alive /\ ~st.inhibited /\ st.inhibitOnFailure) =>
                /\ st1.inhibited /\ ~st1.alive
                /\ hlast'.forwarded # None
                /\ hlast'.forwarded.type = "enable"
                /\ hlast'.forwarded.new = [enable |-> TRUE, weight |-> 0]
                /\ ~hlast'.forwarded.init.enable]_vars

C29_Witness ==
    /\ hlast.kind = "fail"
    /\ hlast.forwarded # None
    /\ hlast.forwarded.type = "enable"
    /\ ~hlast.forwarded.init.enable
    /\ hlast.forwarded.init.weight = ConfigWeight(RealOf(hlast.checker))
    /\ hreal[RealOf(hlast.checker)].inhibited

(***************************************************************************)
(* Properties of prefixes that a reload removes, and of reports for        *)
(* services outside a prefix's set.                                        *)
(***************************************************************************)
\* C31: a reload that leaves a known prefix without services deletes the
\* prefix; if the prefix was Ready an Unready event is recorded for it,
\* which cancels a pending Ready event, and otherwise its pending event is
\* left as it was.
C31_RemovedPrefix ==
    [][\A services \in SUBSET AnnServices :
         ReloadServices(services) =>
            \A p \in AnnPrefixes :
                (prefixes[p] # NoPrefix
                   /\ \A x \in services : Prefix(x) # p) =>
                    /\ prefixes'[p] = NoPrefix
                    /\ prefixEvents'[p] =
                          IF ~prefixStatus(prefixes[p]) THEN prefixEvents[p]
                          ELSE IF prefixEvents[p] = "ready" THEN NoEvent
                          ELSE "unready"]_vars

C31_Witness ==
    \E p \in AnnPrefixes :
        /\ prefixes[p] = NoPrefix
        /\ prefixEvents[p] = "unready"

C39_ConsecutiveFailures ==
    [][\A c \in CheckerIds :
          (/\ hsteps' = hsteps + 1
           /\ hlast'.kind = "fail" /\ hlast'.checker = c
           /\ hchk[c].alive /\ ~hchk'[c].alive) =>
              hstreak'[c] > GetRetries(c)]_vars

\* C38: when a Real is inhibited, inhibit_on_failure has been switched off
\* by a reload, and its Checker fails a probe above the retry threshold,
\* a Disable for the Real is forwarded and the Real is no longer inhibited.
\* The handler leaves the Real's state as it is when it drops the event, so
\* a failure that does not end the inhibition is followed by none that does.
C38_DisableAfterInhibitOff ==
    [][\A c \in CheckerIds :
          (/\ hsteps' = hsteps + 1
           /\ hlast'.kind = "fail" /\ hlast'.checker = c
           /\ hlast'.emitted # None
           /\ hreal[RealOf(c)].inhibited
           /\ ~hreal[RealOf(c)].inhibitOnFailure) =>
              /\ ~hreal'[RealOf(c)].inhibited
              /\ hlast'.forwarded # None
              /\ hlast'.forwarded.type = "disable"]_vars

\* C36: once every event of the Service has been handled (no Checker's
\* goroutine is inside the handler chain), the enabled flag the announcer
\* holds for the Service equals the Service's alive flag.
C36_AnnouncerMatchesAlive ==
    (\A c \in CheckerIds : pc[c] = "idle") => ann = svc.alive

\* C35: when the registry holds no pending event for a Real, no event of
\* the Real is on its way to the registry and no client call has failed,
\* the last command the client received for the Real is the Real's reported
\* status: EnableReal with the reported weight if it reports enabled,
\* and no EnableReal if it reports disabled.
C35_LastCommandIsStatus ==
    \A r \in RealKeys :
        (/\ registry[r] = None
         /\ ~clientFailed
         /\ \A c \in CheckerIds : RealOf(c) = r => pc[c] \notin {"svc", "bal"}) =>
            IF Status(real[r]).enable
            THEN lastCall[r] = [op |-> "EnableReal", weight |-> Status(real[r]).weight]
            ELSE lastCall[r].op # "EnableReal"

(***************************************************************************)
(* Properties of Checker.Stop.                                             *)
(***************************************************************************)
\* C37: once Checker.Stop, called by Real.Reload or Real.Stop, has returned
\* for a Checker that was handed to the pool, the Checker hands no event to
\* its Real any more: its run loop neither emits the Shutdown event nor
\* changes the Checker's status by a probe result.
C37_NoEventAfterStop ==
    [][\A c \in LifeCheckers :
          (/\ lc[c].run # "none"
           /\ rl.cur # c
           /\ c \notin rl.todo
           /\ rl.op = "reload" => c \notin rl.config
           /\ rl.op = "idle" => c \notin rl.checkers) =>
              /\ ~(lc[c].run = "sched" /\ lc'[c].run = "done")
              /\ lc'[c].alive = lc[c].alive]_vars

(***************************************************************************)
(* Properties of reloads of a Real that waits for its activation.          *)
(***************************************************************************)
\* C33: a Core.Reload that reloads a Real returns: whenever Real.Reload is
\* inside Pool.Add for a Real, the send completes at some later point,
\* whether or not the Real's key ever appears in the balancer state.
C33_ReloadReturns == (adding # 0) ~> (adding = 0)

(***************************************************************************)
(* Properties of Stop meeting a Reload.                                    *)
(***************************************************************************)
\* C34: when a Real.Reload was aborted by the shutdown of the Real, no
\* Checker, retained or newly created by that Reload, is running once
\* Real.Stop has returned.
C34_NoChildAfterAbortedStop ==
    (rl.aborted /\ rl.op = "stopped") =>
        \A c \in LifeCheckers : lc[c].run \in {"none", "done"}

\* C32: a Real.Stop that was called returns, also when it meets a
\* Real.Reload in progress.
C32_StopReturns == rl.latch ~> (rl.op = "stopped")

====
